---- MODULE Spec2Model ----
(***************************************************************************)
(* State-machine model of the certificate ledger (zkwasm-staking-position) *)
(*                                                                         *)
(* One variable per persisted collection (the key namespaces of the merkle *)
(* map), one for the GLOBAL_STATE singleton, one for the settlement queue, *)
(* and one for a function of the program evaluated on its own.  Every      *)
(* handler is a function from the ledger before the operation to the       *)
(* ledger after it plus a result code, written in the order of the Rust    *)
(* statements so that what is already persisted when a `?` returns early   *)
(* stays written.                                                          *)
(*                                                                         *)
(* Numbers: TLC computes in 32-bit signed integers, so the 64-bit word of  *)
(* the program is modelled by a 31-bit word (U64_MAX below).  All checked  *)
(* arithmetic compares against U64_MAX exactly as checked_add/sub/mul do.  *)
(***************************************************************************)
EXTENDS Integers, Sequences, FiniteSets, TLC

VARIABLES
    state,          \* GLOBAL_STATE: the GlobalState singleton
    players,        \* merkle map, player namespace: pid -> Option<StakingPlayer>
    productTypes,   \* merkle map, key [1,0,0,id]: id -> Option<ProductType>
    certificates,   \* merkle map, key [2,owner,id]: <<owner,id>> -> Option<Certificate>
    settlement,     \* SettlementInfo queue of WithdrawInfo
    call            \* Option: a function evaluated on its own, [args, result]

vars == <<state, players, productTypes, certificates, settlement, call>>

-----------------------------------------------------------------------------
(* Bounds of the model *)

MaxTick == 60           \* Tick is enabled while counter < MaxTick
MaxTx == 8              \* operations are submitted while txcounter < MaxTx
MaxCertId == 3          \* certificate keys <<owner, 1..MaxCertId>>
MaxProductId == 2       \* product type keys 0..MaxProductId

\* The ledger the exploration starts from (see Bootstrap below)
BootPrincipal == 42900  \* deposited to alice and locked in certificate 1
BootDuration == 59      \* duration_ticks of product type 1
BootTicks == 58         \* Tick operations after the purchase

-----------------------------------------------------------------------------
(* Program constants *)

SECONDS_PER_YEAR == 31536000
BASIS_POINTS_DIVISOR == 10000
MAX_CERTIFICATE_AMOUNT == 1000000000
MAX_APY_BASIS_POINTS == 50000
MIN_CERTIFICATE_AMOUNT == 10
MAX_CERTIFICATE_DURATION_TICKS == 3650 * 17280
SECONDS_PER_TICK == 5
POINTS_DIVISOR == 17280
MIN_POINTS_WITHDRAWAL == 1
MAX_RESERVE_RATIO == 5000
DEFAULT_RESERVE_RATIO == 1000
CERTIFICATE_MULTISIG_FIRST == 0
CERTIFICATE_MULTISIG_MIDDLE == 0
CERTIFICATE_MULTISIG_LAST == 0

\* u64::MAX, scaled to the 31-bit word TLC can compute with.
U64_MAX == 2147483647

\* Result codes, by the names decode_error gives them; SUCCESS is code 0.
SUCCESS == "Success"
ERROR_PLAYER_NOT_EXIST == "PlayerNotExist"
ERROR_PLAYER_ALREADY_EXIST == "PlayerAlreadyExist"
ERROR_INSUFFICIENT_BALANCE == "InsufficientBalance"
ERROR_INVALID_STAKE_AMOUNT == "InvalidStakeAmount"
ERROR_OVERFLOW == "MathOverflow"
ERROR_UNDERFLOW == "MathUnderflow"
ERROR_DIVISION_BY_ZERO == "DivisionByZero"
ERROR_INSUFFICIENT_POINTS == "InsufficientPoints"
ERROR_INVALID_POINTS_AMOUNT == "InvalidPointsAmount"
ERROR_POINTS_AMOUNT_TOO_SMALL == "PointsAmountTooSmall"
ERROR_PRODUCT_TYPE_NOT_EXIST == "ProductTypeNotExist"
ERROR_PRODUCT_TYPE_INACTIVE == "ProductTypeInactive"
ERROR_CERTIFICATE_NOT_OWNED == "CertificateNotOwned"
ERROR_CERTIFICATE_NOT_MATURED == "CertificateNotMatured"
ERROR_CERTIFICATE_ALREADY_REDEEMED == "CertificateAlreadyRedeemed"
ERROR_INSUFFICIENT_INTEREST == "InsufficientInterest"
ERROR_INVALID_PRINCIPAL_AMOUNT == "InvalidPrincipalAmount"
ERROR_PRINCIPAL_AMOUNT_TOO_SMALL == "PrincipalAmountTooSmall"
ERROR_INVALID_APY == "InvalidApy"
ERROR_INVALID_DURATION == "InvalidDuration"

\* Account identities.  ADMIN_PUBKEY is the configured privileged identity;
\* pkey_to_pid is injective, so a pid stands for its key.
ADMIN_PUBKEY == "admin"
Pids == {"admin", "alice", "bob"}

\* Option<T>: None is the empty storage read, Some(x) a stored record.
None == <<>>
Some(x) == <<x>>

\* Result<T, u32>
Ok(v) == [ok |-> TRUE, v |-> v, e |-> SUCCESS]
Err(e) == [ok |-> FALSE, v |-> 0, e |-> e]

\* `r?` inside a function that returns a Result: the value goes on to Then,
\* an error is returned as it is.
Bind(r, Then(_)) == IF r.ok THEN Then(r.v) ELSE r

-----------------------------------------------------------------------------
(* math_safe.rs *)

\* safe_add that returns the largest word where the sum does not fit
safe_add_saturating(a, b) == IF a > U64_MAX - b THEN Ok(U64_MAX) ELSE Ok(a + b)

safe_add(a, b) == IF a > U64_MAX - b THEN Err(ERROR_OVERFLOW) ELSE Ok(a + b)

safe_sub(a, b) == IF a < b THEN Err(ERROR_UNDERFLOW) ELSE Ok(a - b)

safe_mul(a, b) ==
    IF b # 0 /\ a > U64_MAX \div b THEN Err(ERROR_OVERFLOW) ELSE Ok(a * b)

safe_div(a, b) == IF b = 0 THEN Err(ERROR_DIVISION_BY_ZERO) ELSE Ok(a \div b)

-----------------------------------------------------------------------------
(* certificate.rs *)

Active == "Active"
Matured == "Matured"
Redeemed == "Redeemed"

\* CertificateStatus::to_u64, the order of the lifecycle
to_u64(status) ==
    CASE status = Active -> 0
      [] status = Matured -> 1
      [] status = Redeemed -> 2

ProductType_new(id, duration_ticks, apy, min_amount) ==
    [id |-> id, duration_ticks |-> duration_ticks, apy |-> apy,
     min_amount |-> min_amount, is_active |-> TRUE]

\* calculate_maturity_time that counts the duration from tick 0
calculate_maturity_time_from_zero(product_type, purchase_time) ==
    safe_add(0, product_type.duration_ticks)

calculate_maturity_time(product_type, purchase_time) ==
    safe_add(purchase_time, product_type.duration_ticks)

Certificate_new(id, owner, product_type_id, principal, purchase_time, maturity_time, locked_apy) ==
    [id |-> id, owner |-> owner, product_type_id |-> product_type_id,
     principal |-> principal, purchase_time |-> purchase_time,
     maturity_time |-> maturity_time, locked_apy |-> locked_apy,
     total_interest_claimed |-> 0, status |-> Active]

\* calculate_total_simple_interest that divides the time by the year before
\* it multiplies by the annual interest
calculate_total_simple_interest_time_first(cert, current_time) ==
    IF current_time <= cert.purchase_time THEN Ok(0)
    ELSE
      Bind(safe_sub(current_time, cert.purchase_time), LAMBDA total_time :
      Bind(safe_mul(total_time, SECONDS_PER_TICK), LAMBDA total_time_seconds :
      Bind(safe_mul(cert.principal, cert.locked_apy), LAMBDA product :
      Bind(safe_div(product, BASIS_POINTS_DIVISOR), LAMBDA annual_interest :
      Bind(safe_div(total_time_seconds, SECONDS_PER_YEAR), LAMBDA years :
      safe_mul(annual_interest, years))))))

calculate_total_simple_interest(cert, current_time) ==
    IF current_time <= cert.purchase_time THEN Ok(0)
    ELSE
      Bind(safe_sub(current_time, cert.purchase_time), LAMBDA total_time :
      Bind(safe_mul(total_time, SECONDS_PER_TICK), LAMBDA total_time_seconds :
      Bind(safe_mul(cert.principal, cert.locked_apy), LAMBDA product :
      Bind(safe_div(product, BASIS_POINTS_DIVISOR), LAMBDA annual_interest :
      Bind(safe_mul(annual_interest, total_time_seconds), LAMBDA scaled :
      safe_div(scaled, SECONDS_PER_YEAR))))))

\* calculate_available_interest without the floor at zero: the subtraction
\* fails when more has been claimed than is earned at current_time
calculate_available_interest_unfloored(cert, current_time) ==
    Bind(calculate_total_simple_interest(cert, current_time),
         LAMBDA total_earned :
           safe_sub(total_earned, cert.total_interest_claimed))

\* calculate_available_interest that forgets what has been claimed
calculate_available_interest_unclaimed(cert, current_time) ==
    calculate_total_simple_interest(cert, current_time)

calculate_available_interest(cert, current_time) ==
    Bind(calculate_total_simple_interest(cert, current_time),
         LAMBDA total_earned :
           IF total_earned >= cert.total_interest_claimed
           THEN safe_sub(total_earned, cert.total_interest_claimed)
           ELSE Ok(0))

is_matured(cert, current_time) == current_time >= cert.maturity_time

update_status(cert, current_time) ==
    IF cert.status = Active /\ is_matured(cert, current_time)
    THEN [cert EXCEPT !.status = Matured]
    ELSE cert

\* Certificate::claim_interest that records nothing
Certificate_claim_interest_unrecorded(cert, claimed_amount) == Ok(cert)

\* Certificate::claim_interest that puts the certificate back to Active
Certificate_claim_interest_reactivating(cert, claimed_amount) ==
    Bind(safe_add(cert.total_interest_claimed, claimed_amount),
         LAMBDA sum : Ok([cert EXCEPT !.total_interest_claimed = sum,
                                      !.status = Active]))

\* Certificate::claim_interest that records one unit less than was claimed
Certificate_claim_interest_underrecorded(cert, claimed_amount) ==
    Bind(safe_add(cert.total_interest_claimed, claimed_amount - 1),
         LAMBDA sum : Ok([cert EXCEPT !.total_interest_claimed = sum]))

\* Certificate::claim_interest: Result<Certificate, u32> (the &mut self after)
Certificate_claim_interest(cert, claimed_amount) ==
    Bind(safe_add(cert.total_interest_claimed, claimed_amount),
         LAMBDA sum : Ok([cert EXCEPT !.total_interest_claimed = sum]))

\* Certificate::redeem_principal that leaves the status as update_status set it
Certificate_redeem_principal_unmarked(cert, current_time) ==
    IF ~is_matured(cert, current_time)
    THEN Err(ERROR_CERTIFICATE_NOT_MATURED)
    ELSE Ok(cert)

\* Certificate::redeem_principal: Result<Certificate, u32>
Certificate_redeem_principal(cert, current_time) ==
    IF ~is_matured(cert, current_time)
    THEN Err(ERROR_CERTIFICATE_NOT_MATURED)
    ELSE Ok([cert EXCEPT !.status = Redeemed])

-----------------------------------------------------------------------------
(* The ledger a handler works on: GLOBAL_STATE, the three storage namespaces
   and the settlement queue, as one record m. *)

Machine(st, pl, pt, ct, q) ==
    [state |-> st, players |-> pl, productTypes |-> pt, certificates |-> ct,
     settlement |-> q]

\* The outcome of a handler: the ledger it leaves and its Result<(), u32>.
Done(m) == [m |-> m, e |-> SUCCESS]
Fail(m, e) == [m |-> m, e |-> e]

\* `r?` in a handler working on ledger m: on an error the handler returns,
\* leaving the ledger as it is at that statement.
Try(m, r, Then(_)) == IF r.ok THEN Then(r.v) ELSE Fail(m, r.e)

\* The outcome of a manager call: the ledger it leaves and its Result<u64, u32>.
Ret(m, r) == [m |-> m, r |-> r]

\* `Manager::call(..)?` in a handler: the manager's writes stay either way.
TryCall(ret, Then(_, _)) ==
    IF ret.r.ok THEN Then(ret.m, ret.r.v) ELSE Fail(ret.m, ret.r.e)

\* `r?` in a manager function working on ledger m
TryRet(m, r, Then(_)) == IF r.ok THEN Then(r.v) ELSE Ret(m, r)

-----------------------------------------------------------------------------
(* player.rs, and zkwasm_rest_abi::Player as the handlers use it *)

PlayerData_new == [points |-> 0, idle_funds |-> 0]

StakingPlayer_new(pid) == [player_id |-> pid, nonce |-> 0, data |-> PlayerData_new]

get_from_pid(m, pid) == IF pid \in DOMAIN m.players THEN m.players[pid] ELSE None

\* Player::store: the whole record, nonce and data, is written under its pid
store(m, player) == [m EXCEPT !.players[player.player_id] = Some(player)]

\* check_and_inc_nonce that leaves the nonce
check_and_inc_nonce_unadvanced(player) == player

\* The transaction carries the stored nonce (any other traps in `require`).
check_and_inc_nonce(player) == [player EXCEPT !.nonce = @ + 1]

\* `match player.as_mut() { None => Err(PLAYER_NOT_EXIST), Some(player) => ..}`
\* with the check_and_inc_nonce that opens the Some arm
WithPlayer(m, pid, Then(_)) ==
    IF get_from_pid(m, pid) = None THEN Fail(m, ERROR_PLAYER_NOT_EXIST)
    ELSE Then(check_and_inc_nonce(get_from_pid(m, pid)[1]))

\* `get_from_pid(pid).unwrap()` followed by check_and_inc_nonce
UnwrapPlayer(m, pid) == check_and_inc_nonce(get_from_pid(m, pid)[1])

calculate_effective_points(data, current_time) == Ok(data.points)

\* PlayerData::add_idle_funds: Result<PlayerData, u32>
add_idle_funds(data, amount) ==
    Bind(safe_add(data.idle_funds, amount),
         LAMBDA sum : Ok([data EXCEPT !.idle_funds = sum]))

\* PlayerData::spend_idle_funds: Result<PlayerData, u32>
spend_idle_funds(data, amount) ==
    IF data.idle_funds < amount THEN Err(ERROR_INSUFFICIENT_BALANCE)
    ELSE Bind(safe_sub(data.idle_funds, amount),
              LAMBDA diff : Ok([data EXCEPT !.idle_funds = diff]))

-----------------------------------------------------------------------------
(* config.rs *)

get_multisig_address_parts ==
    <<CERTIFICATE_MULTISIG_FIRST, CERTIFICATE_MULTISIG_MIDDLE,
      CERTIFICATE_MULTISIG_LAST>>

\* validate_reserve_ratio that admits every share up to the whole
validate_reserve_ratio_to_whole(reserve_ratio) == reserve_ratio <= BASIS_POINTS_DIVISOR

validate_reserve_ratio(reserve_ratio) == reserve_ratio <= MAX_RESERVE_RATIO

\* calculate_available_funds that subtracts the withdrawals unconditionally
calculate_available_funds_underflowing(total_funds, cumulative_admin_withdrawals, total_recharge_amount, reserve_ratio) ==
    Bind(safe_add(total_funds, total_recharge_amount),
         LAMBDA funds_with_recharge :
    Bind(safe_sub(funds_with_recharge, cumulative_admin_withdrawals),
         LAMBDA user_withdrawable :
    Bind(safe_sub(BASIS_POINTS_DIVISOR, reserve_ratio),
         LAMBDA multiplier :
    Bind(safe_mul(user_withdrawable, multiplier),
         LAMBDA available_before_division :
    Ok(available_before_division \div BASIS_POINTS_DIVISOR)))))

\* calculate_available_funds that applies the reserve share, not its complement
calculate_available_funds_reserved_share(total_funds, cumulative_admin_withdrawals, total_recharge_amount, reserve_ratio) ==
    Bind(safe_add(total_funds, total_recharge_amount),
         LAMBDA funds_with_recharge :
    Bind(IF funds_with_recharge >= cumulative_admin_withdrawals
           THEN safe_sub(funds_with_recharge, cumulative_admin_withdrawals)
           ELSE Ok(0),
         LAMBDA user_withdrawable :
    Bind(safe_sub(BASIS_POINTS_DIVISOR, reserve_ratio),
         LAMBDA multiplier :
    Bind(safe_mul(user_withdrawable, reserve_ratio),
         LAMBDA available_before_division :
    Ok(available_before_division \div BASIS_POINTS_DIVISOR)))))

\* calculate_available_funds that leaves the earlier withdrawals uncounted
calculate_available_funds_gross(total_funds, cumulative_admin_withdrawals, total_recharge_amount, reserve_ratio) ==
    Bind(safe_add(total_funds, total_recharge_amount),
         LAMBDA funds_with_recharge :
    Bind(safe_sub(BASIS_POINTS_DIVISOR, reserve_ratio),
         LAMBDA multiplier :
    Bind(safe_mul(funds_with_recharge, multiplier),
         LAMBDA available_before_division :
    Ok(available_before_division \div BASIS_POINTS_DIVISOR))))

calculate_available_funds(total_funds, cumulative_admin_withdrawals, total_recharge_amount, reserve_ratio) ==
    Bind(safe_add(total_funds, total_recharge_amount),
         LAMBDA funds_with_recharge :
    Bind(IF funds_with_recharge >= cumulative_admin_withdrawals
         THEN safe_sub(funds_with_recharge, cumulative_admin_withdrawals)
         ELSE Ok(0),
         LAMBDA user_withdrawable :
    Bind(IF safe_sub(BASIS_POINTS_DIVISOR, reserve_ratio).ok
         THEN safe_sub(BASIS_POINTS_DIVISOR, reserve_ratio)
         ELSE Err(ERROR_UNDERFLOW),
         LAMBDA multiplier :
    Bind(safe_mul(user_withdrawable, multiplier),
         LAMBDA available_before_division :
    Ok(available_before_division \div BASIS_POINTS_DIVISOR)))))

-----------------------------------------------------------------------------
(* settlement: WithdrawInfo::new(limbs, feature) and append_settlement.
   The first limb carries the amount in its low 32 bits. *)

Limb(hi, lo) == [hi |-> hi, lo |-> lo]

Low32(limb) == limb.lo

WithdrawInfo_new(limbs, feature) == [limbs |-> limbs, feature |-> feature]

append_settlement(m, info) == [m EXCEPT !.settlement = Append(@, info)]

-----------------------------------------------------------------------------
(* cert_manager.rs: ProductTypeManager *)

store_product_type(m, product_type) ==
    [m EXCEPT !.productTypes[product_type.id] = Some(product_type)]

get_default_recharge_product ==
    [id |-> 0, duration_ticks |-> MAX_CERTIFICATE_DURATION_TICKS, apy |-> 0,
     min_amount |-> 1, is_active |-> TRUE]

\* get_product_type that prefers a record stored under id 0 to the default
get_product_type_stored_first(m, id) ==
    IF id \in DOMAIN m.productTypes /\ m.productTypes[id] # None
    THEN m.productTypes[id]
    ELSE IF id = 0 THEN Some(get_default_recharge_product) ELSE None

get_product_type(m, id) ==
    IF id = 0 THEN Some(get_default_recharge_product)
    ELSE IF id \in DOMAIN m.productTypes THEN m.productTypes[id] ELSE None

\* create_product_type that leaves product_type_counter where it is
create_product_type_reusing(m, duration_ticks, apy, min_amount, is_active) ==
    Ret(store_product_type(m,
            [ProductType_new(m.state.product_type_counter, duration_ticks,
                             apy, min_amount)
               EXCEPT !.is_active = is_active]),
        Ok(m.state.product_type_counter))

create_product_type(m, duration_ticks, apy, min_amount, is_active) ==
    IF duration_ticks = 0 \/ duration_ticks > MAX_CERTIFICATE_DURATION_TICKS
    THEN Ret(m, Err(ERROR_INVALID_DURATION))
    ELSE IF apy > MAX_APY_BASIS_POINTS
    THEN Ret(m, Err(ERROR_INVALID_APY))
    ELSE IF ~(MIN_CERTIFICATE_AMOUNT <= min_amount
              /\ min_amount <= MAX_CERTIFICATE_AMOUNT)
    THEN Ret(m, Err(ERROR_INVALID_PRINCIPAL_AMOUNT))
    ELSE
      Ret(store_product_type(
              [m EXCEPT !.state.product_type_counter = @ + 1],
              [ProductType_new(m.state.product_type_counter, duration_ticks,
                               apy, min_amount)
                 EXCEPT !.is_active = is_active]),
          Ok(m.state.product_type_counter))

\* modify_product_type that also applies the new rate to the certificates
\* already sold of the product
modify_product_type_relocking(m, product_type_id, new_apy, new_duration, new_min_amount, is_active) ==
    IF get_product_type(m, product_type_id) = None
    THEN Ret(m, Err(ERROR_PRODUCT_TYPE_NOT_EXIST))
    ELSE IF new_apy > MAX_APY_BASIS_POINTS
    THEN Ret(m, Err(ERROR_INVALID_APY))
    ELSE IF new_duration = 0 \/ new_duration > MAX_CERTIFICATE_DURATION_TICKS
    THEN Ret(m, Err(ERROR_INVALID_DURATION))
    ELSE IF new_min_amount = 0
    THEN Ret(m, Err(ERROR_INVALID_STAKE_AMOUNT))
    ELSE
      Ret([store_product_type(m,
               [get_product_type(m, product_type_id)[1]
                  EXCEPT !.apy = new_apy,
                         !.duration_ticks = new_duration,
                         !.min_amount = new_min_amount,
                         !.is_active = is_active])
             EXCEPT !.certificates =
                [key \in DOMAIN @ |->
                    IF @[key] # None /\ @[key][1].product_type_id = product_type_id
                    THEN Some([@[key][1] EXCEPT !.locked_apy = new_apy])
                    ELSE @[key]]],
          Ok(0))

modify_product_type(m, product_type_id, new_apy, new_duration, new_min_amount, is_active) ==
    IF get_product_type(m, product_type_id) = None
    THEN Ret(m, Err(ERROR_PRODUCT_TYPE_NOT_EXIST))
    ELSE IF new_apy > MAX_APY_BASIS_POINTS
    THEN Ret(m, Err(ERROR_INVALID_APY))
    ELSE IF new_duration = 0 \/ new_duration > MAX_CERTIFICATE_DURATION_TICKS
    THEN Ret(m, Err(ERROR_INVALID_DURATION))
    ELSE IF new_min_amount = 0
    THEN Ret(m, Err(ERROR_INVALID_STAKE_AMOUNT))
    ELSE
      Ret(store_product_type(m,
              [get_product_type(m, product_type_id)[1]
                 EXCEPT !.apy = new_apy,
                        !.duration_ticks = new_duration,
                        !.min_amount = new_min_amount,
                        !.is_active = is_active]),
          Ok(0))

-----------------------------------------------------------------------------
(* cert_manager.rs: CertificateManager *)

store_certificate(m, cert) ==
    [m EXCEPT !.certificates[<<cert.owner, cert.id>>] = Some(cert)]

\* validate_certificate_ownership that finds the certificate by its id alone
validate_certificate_ownership_by_id(m, owner, cert_id) ==
    IF \E p \in Pids : <<p, cert_id>> \in DOMAIN m.certificates
                       /\ m.certificates[<<p, cert_id>>] # None
    THEN Ok(m.certificates[<<CHOOSE p \in Pids :
                                 /\ <<p, cert_id>> \in DOMAIN m.certificates
                                 /\ m.certificates[<<p, cert_id>>] # None,
                             cert_id>>][1])
    ELSE Err(ERROR_CERTIFICATE_NOT_OWNED)

\* Result<Certificate, u32>
validate_certificate_ownership(m, owner, cert_id) ==
    IF <<owner, cert_id>> \in DOMAIN m.certificates
       /\ m.certificates[<<owner, cert_id>>] # None
    THEN Ok(m.certificates[<<owner, cert_id>>][1])
    ELSE Err(ERROR_CERTIFICATE_NOT_OWNED)

\* The tail of purchase_certificate, once the product type is found:
\* the id is taken from the counter before the maturity time is computed.
purchase_of_product(m, owner, product_type, principal_amount) ==
    IF ~product_type.is_active THEN Ret(m, Err(ERROR_PRODUCT_TYPE_INACTIVE))
    ELSE IF principal_amount < product_type.min_amount
    THEN Ret(m, Err(ERROR_PRINCIPAL_AMOUNT_TOO_SMALL))
    ELSE
      TryRet([m EXCEPT !.state.certificate_counter = @ + 1],
             calculate_maturity_time(product_type, m.state.counter),
             LAMBDA maturity_time :
               Ret(store_certificate(
                       [m EXCEPT !.state.certificate_counter = @ + 1],
                       Certificate_new(m.state.certificate_counter, owner,
                                       product_type.id, principal_amount,
                                       m.state.counter, maturity_time,
                                       product_type.apy)),
                   Ok(m.state.certificate_counter)))

\* purchase_certificate that looks the product up before it checks the amount
\* against the global limits
purchase_certificate_product_first(m, owner, product_type_id, principal_amount) ==
    IF get_product_type(m, product_type_id) = None
    THEN Ret(m, Err(ERROR_PRODUCT_TYPE_NOT_EXIST))
    ELSE IF ~(MIN_CERTIFICATE_AMOUNT <= principal_amount
              /\ principal_amount <= MAX_CERTIFICATE_AMOUNT)
    THEN Ret(m, Err(ERROR_INVALID_PRINCIPAL_AMOUNT))
    ELSE purchase_of_product(m, owner, get_product_type(m, product_type_id)[1],
                             principal_amount)

purchase_certificate(m, owner, product_type_id, principal_amount) ==
    IF ~(MIN_CERTIFICATE_AMOUNT <= principal_amount
         /\ principal_amount <= MAX_CERTIFICATE_AMOUNT)
    THEN Ret(m, Err(ERROR_INVALID_PRINCIPAL_AMOUNT))
    ELSE IF get_product_type(m, product_type_id) = None
    THEN Ret(m, Err(ERROR_PRODUCT_TYPE_NOT_EXIST))
    ELSE purchase_of_product(m, owner, get_product_type(m, product_type_id)[1],
                             principal_amount)

\* claim_interest that brings the status up to date before it stores
claim_interest_updating(m, owner, cert_id) ==
    TryRet(m, validate_certificate_ownership(m, owner, cert_id), LAMBDA cert :
    TryRet(m, calculate_available_interest(cert, m.state.counter),
           LAMBDA available_interest :
      IF available_interest = 0 THEN Ret(m, Err(ERROR_INSUFFICIENT_INTEREST))
      ELSE
        TryRet(m, Certificate_claim_interest(cert, available_interest),
               LAMBDA claimed :
                 Ret(store_certificate(m, update_status(claimed, m.state.counter)),
                     Ok(available_interest)))))

claim_interest(m, owner, cert_id) ==
    TryRet(m, validate_certificate_ownership(m, owner, cert_id), LAMBDA cert :
    TryRet(m, calculate_available_interest(cert, m.state.counter),
           LAMBDA available_interest :
      IF available_interest = 0 THEN Ret(m, Err(ERROR_INSUFFICIENT_INTEREST))
      ELSE
        TryRet(m, Certificate_claim_interest(cert, available_interest),
               LAMBDA claimed :
                 Ret(store_certificate(m, claimed), Ok(available_interest)))))

\* redeem_updated without the check for a Redeemed certificate
redeem_updated_unchecked(m, cert) ==
    TryRet(m, Certificate_redeem_principal(cert, m.state.counter),
           LAMBDA redeemed :
             Ret(store_certificate(m, redeemed), Ok(redeemed.principal)))

\* The tail of redeem_principal, on the certificate after update_status
redeem_updated(m, cert) ==
    IF cert.status = Redeemed
    THEN Ret(m, Err(ERROR_CERTIFICATE_ALREADY_REDEEMED))
    ELSE TryRet(m, Certificate_redeem_principal(cert, m.state.counter),
                LAMBDA redeemed :
                  Ret(store_certificate(m, redeemed), Ok(redeemed.principal)))

redeem_principal(m, owner, cert_id) ==
    TryRet(m, validate_certificate_ownership(m, owner, cert_id), LAMBDA cert :
           redeem_updated(m, update_status(cert, m.state.counter)))

-----------------------------------------------------------------------------
(* command.rs: the handlers.  Each returns the ledger as the handler leaves
   it (what it stored or assigned before returning) and the code. *)

\* data = <<limb with the amount, address limb, address limb>>
Withdraw_handle(m, pid, data) ==
    WithPlayer(m, pid, LAMBDA player :
      IF player.data.idle_funds < Low32(data[1])
      THEN Fail(m, ERROR_INSUFFICIENT_BALANCE)
      ELSE
        Try(m, spend_idle_funds(player.data, Low32(data[1])), LAMBDA spent :
        Try(m, safe_sub(m.state.total_funds, Low32(data[1])), LAMBDA total :
          Done(store(append_settlement([m EXCEPT !.state.total_funds = total],
                                       WithdrawInfo_new(data, 0)),
                     [player EXCEPT !.data = spent])))))

\* WithdrawPoints::handle that deducts the amount asked, not its multiple
WithdrawPoints_handle_unscaled(m, pid, data) ==
    WithPlayer(m, pid, LAMBDA player :
      IF Low32(data[1]) = 0 THEN Fail(m, ERROR_INVALID_POINTS_AMOUNT)
      ELSE IF Low32(data[1]) < MIN_POINTS_WITHDRAWAL
      THEN Fail(m, ERROR_POINTS_AMOUNT_TOO_SMALL)
      ELSE
        Try(m, safe_mul(Low32(data[1]), POINTS_DIVISOR),
            LAMBDA required_points :
        Try(m, calculate_effective_points(player.data, m.state.counter),
            LAMBDA current_points :
          IF current_points < required_points
          THEN Fail(m, ERROR_INSUFFICIENT_POINTS)
          ELSE
            Try(m, safe_sub(player.data.points, Low32(data[1])),
                LAMBDA left :
                  Done(store(append_settlement(m, WithdrawInfo_new(data, 512)),
                             [player EXCEPT !.data.points = left]))))))

WithdrawPoints_handle(m, pid, data) ==
    WithPlayer(m, pid, LAMBDA player :
      IF Low32(data[1]) = 0 THEN Fail(m, ERROR_INVALID_POINTS_AMOUNT)
      ELSE IF Low32(data[1]) < MIN_POINTS_WITHDRAWAL
      THEN Fail(m, ERROR_POINTS_AMOUNT_TOO_SMALL)
      ELSE
        Try(m, safe_mul(Low32(data[1]), POINTS_DIVISOR),
            LAMBDA required_points :
        Try(m, calculate_effective_points(player.data, m.state.counter),
            LAMBDA current_points :
          IF current_points < required_points
          THEN Fail(m, ERROR_INSUFFICIENT_POINTS)
          ELSE
            Try(m, safe_sub(player.data.points, required_points),
                LAMBDA left :
                  Done(store(append_settlement(m, WithdrawInfo_new(data, 512)),
                             [player EXCEPT !.data.points = left]))))))

WithdrawPoints_handle_admin(m, pid, data) ==
    Done(store(append_settlement(m, WithdrawInfo_new(data, 512)),
               UnwrapPlayer(m, pid)))

\* data = <<target pid, amount>>.  The target's record is read afresh from
\* storage and stored first; the admin's record, read before, is stored last.
Deposit_handle(m, pid, data) ==
    IF get_from_pid(m, data[1]) = None THEN Fail(m, ERROR_PLAYER_NOT_EXIST)
    ELSE IF data[2] = 0 THEN Fail(m, ERROR_INVALID_STAKE_AMOUNT)
    ELSE
      Try(m, add_idle_funds(get_from_pid(m, data[1])[1].data, data[2]),
          LAMBDA added :
      Try(m, safe_add(m.state.total_funds, data[2]), LAMBDA total :
        Done(store(store([m EXCEPT !.state.total_funds = total],
                         [get_from_pid(m, data[1])[1] EXCEPT !.data = added]),
                   UnwrapPlayer(m, pid)))))

\* data = <<duration_ticks, apy, min_amount, is_active>>
CreateProductType_handle(m, pid, data) ==
    TryCall(create_product_type(m, data[1], data[2], data[3], data[4] # 0),
            LAMBDA m1, product_type_id : Done(store(m1, UnwrapPlayer(m, pid))))

\* data = <<product_type_id, new_apy, new_duration, new_min_amount, is_active>>
ModifyProductType_handle(m, pid, data) ==
    TryCall(modify_product_type(m, data[1], data[2], data[3], data[4],
                                data[5] # 0),
            LAMBDA m1, unit : Done(store(m1, UnwrapPlayer(m, pid))))

\* The global statistics of a purchase, then player.store()
\* purchase_statistics that treats the recharge product as any other
purchase_statistics_unclassified(m, product_type_id, amount, player) ==
    Done(store(m, player))

purchase_statistics(m, product_type_id, amount, player) ==
    IF product_type_id = 0
    THEN
      Try(m, safe_sub(m.state.total_funds, amount), LAMBDA total :
      Try([m EXCEPT !.state.total_funds = total],
          safe_add(m.state.total_recharge_amount, amount), LAMBDA recharge :
        Done(store([m EXCEPT !.state.total_funds = total,
                             !.state.total_recharge_amount = recharge],
                   player))))
    ELSE Done(store(m, player))

\* data = <<product_type_id, amount>>
PurchaseCertificate_handle(m, pid, data) ==
    WithPlayer(m, pid, LAMBDA player :
      IF data[2] = 0 THEN Fail(m, ERROR_INVALID_PRINCIPAL_AMOUNT)
      ELSE IF player.data.idle_funds < data[2]
      THEN Fail(m, ERROR_INSUFFICIENT_BALANCE)
      ELSE
        TryCall(purchase_certificate(m, pid, data[1], data[2]),
                LAMBDA m1, cert_id :
          Try(m1, spend_idle_funds(player.data, data[2]), LAMBDA spent :
            purchase_statistics(m1, data[1], data[2],
                                [player EXCEPT !.data = spent]))))

ClaimInterest_handle(m, pid, certificate_id) ==
    WithPlayer(m, pid, LAMBDA player :
      TryCall(claim_interest(m, pid, certificate_id),
              LAMBDA m1, actual_amount :
        Try(m1, add_idle_funds(player.data, actual_amount), LAMBDA added :
        Try(m1, safe_add(m1.state.interest_claimed, actual_amount),
            LAMBDA paid :
              Done(store([m1 EXCEPT !.state.interest_claimed = paid],
                         [player EXCEPT !.data = added]))))))

RedeemPrincipal_handle(m, pid, certificate_id) ==
    WithPlayer(m, pid, LAMBDA player :
      TryCall(redeem_principal(m, pid, certificate_id),
              LAMBDA m1, principal_amount :
        Try(m1, add_idle_funds(player.data, principal_amount), LAMBDA added :
          Done(store(m1, [player EXCEPT !.data = added])))))

\* AdminWithdrawToMultisig::handle without the check against the available
\* funds
AdminWithdrawToMultisig_handle_ungated(m, pid, amount) ==
    IF amount = 0 THEN Fail(m, ERROR_INVALID_STAKE_AMOUNT)
    ELSE
      Try(m, safe_add(m.state.cumulative_admin_withdrawals, amount),
          LAMBDA cumulative :
            Done(store(append_settlement(
                           [m EXCEPT !.state.cumulative_admin_withdrawals
                                         = cumulative],
                           WithdrawInfo_new(
                               <<Limb(0, get_multisig_address_parts[1]),
                                 get_multisig_address_parts[2],
                                 get_multisig_address_parts[3]>>, 0)),
                       UnwrapPlayer(m, pid))))

AdminWithdrawToMultisig_handle(m, pid, amount) ==
    IF amount = 0 THEN Fail(m, ERROR_INVALID_STAKE_AMOUNT)
    ELSE
      Try(m, calculate_available_funds(m.state.total_funds,
                                       m.state.cumulative_admin_withdrawals,
                                       m.state.total_recharge_amount,
                                       m.state.reserve_ratio),
          LAMBDA max_available :
        IF amount > max_available THEN Fail(m, ERROR_INSUFFICIENT_BALANCE)
        ELSE
          Try(m, safe_add(m.state.cumulative_admin_withdrawals, amount),
              LAMBDA cumulative :
                Done(store(append_settlement(
                               [m EXCEPT !.state.cumulative_admin_withdrawals
                                             = cumulative],
                               WithdrawInfo_new(
                                   <<Limb(0, get_multisig_address_parts[1]),
                                     get_multisig_address_parts[2],
                                     get_multisig_address_parts[3]>>, 0)),
                           UnwrapPlayer(m, pid)))))

SetReserveRatio_handle(m, pid, reserve_ratio) ==
    IF ~validate_reserve_ratio(reserve_ratio)
    THEN Fail(m, ERROR_INVALID_STAKE_AMOUNT)
    ELSE Done(store([m EXCEPT !.state.reserve_ratio = reserve_ratio],
                    UnwrapPlayer(m, pid)))

-----------------------------------------------------------------------------
(* state.rs: GlobalState and Transaction *)

GlobalState_new ==
    [counter |-> 0, total_players |-> 0, total_funds |-> 0, txsize |-> 0,
     txcounter |-> 0, product_type_counter |-> 1, certificate_counter |-> 1,
     reserve_ratio |-> DEFAULT_RESERVE_RATIO, cumulative_admin_withdrawals |-> 0,
     interest_claimed |-> 0, total_recharge_amount |-> 0]

create_player(m, pkey) ==
    IF get_from_pid(m, pkey) # None THEN Fail(m, ERROR_PLAYER_ALREADY_EXIST)
    ELSE Done([store(m, StakingPlayer_new(pkey))
                 EXCEPT !.state.total_players = @ + 1])

inc_tx_number(m) ==
    [m EXCEPT !.state.txsize = @ + 1, !.state.txcounter = @ + 1]

\* tick that advances the counter by two
tick_twice(m) == [m EXCEPT !.state.counter = @ + 2]

\* tick that leaves the counter
tick_stalled(m) == m

tick(m) == [m EXCEPT !.state.counter = @ + 1]

\* The commands process guards with require(*pkey == *ADMIN_PUBKEY)
AdminOnly ==
    {"Tick", "Deposit", "CreateProductType", "ModifyProductType",
     "AdminWithdrawToMultisig", "SetReserveRatio"}

\* The handlers that unwrap() the actor's player record
UnwrapsActor ==
    {"Deposit", "CreateProductType", "ModifyProductType",
     "AdminWithdrawToMultisig", "SetReserveRatio"}

\* The transaction traps (a failed require, or a panic on unwrap of None):
\* the host commits nothing and process returns nothing.
\* traps without the require of the privileged key
traps_on_unwrap(m, pkey, tx) ==
    \/ tx.command \in UnwrapsActor /\ get_from_pid(m, pkey) = None
    \/ /\ tx.command = "WithdrawPoints"
       /\ pkey = ADMIN_PUBKEY
       /\ get_from_pid(m, pkey) = None

traps(m, pkey, tx) ==
    \/ tx.command \in AdminOnly /\ pkey # ADMIN_PUBKEY
    \/ tx.command \in UnwrapsActor /\ get_from_pid(m, pkey) = None
    \/ /\ tx.command = "WithdrawPoints"
       /\ pkey = ADMIN_PUBKEY
       /\ get_from_pid(m, pkey) = None

\* The match of Transaction::process
dispatch(m, pkey, tx) ==
    CASE tx.command = "InstallPlayer" -> create_player(m, pkey)
      [] tx.command = "Tick" -> Done(tick(m))
      [] tx.command = "Withdraw" -> Withdraw_handle(m, pkey, tx.data)
      [] tx.command = "WithdrawPoints" ->
             IF pkey = ADMIN_PUBKEY
             THEN WithdrawPoints_handle_admin(m, pkey, tx.data)
             ELSE WithdrawPoints_handle(m, pkey, tx.data)
      [] tx.command = "Deposit" -> Deposit_handle(m, pkey, tx.data)
      [] tx.command = "CreateProductType" ->
             CreateProductType_handle(m, pkey, tx.data)
      [] tx.command = "ModifyProductType" ->
             ModifyProductType_handle(m, pkey, tx.data)
      [] tx.command = "PurchaseCertificate" ->
             PurchaseCertificate_handle(m, pkey, tx.data)
      [] tx.command = "ClaimInterest" -> ClaimInterest_handle(m, pkey, tx.data)
      [] tx.command = "RedeemPrincipal" ->
             RedeemPrincipal_handle(m, pkey, tx.data)
      [] tx.command = "AdminWithdrawToMultisig" ->
             AdminWithdrawToMultisig_handle(m, pkey, tx.data)
      [] tx.command = "SetReserveRatio" ->
             SetReserveRatio_handle(m, pkey, tx.data)

\* count_tx that counts every command other than Tick, whatever it returned
count_tx_whatever_returned(out, tx) ==
    IF tx.command # "Tick"
    THEN [m |-> inc_tx_number(out.m), e |-> out.e]
    ELSE out

\* The end of process: a successful command other than Tick is counted
count_tx(out, tx) ==
    IF out.e = SUCCESS /\ tx.command # "Tick"
    THEN [m |-> inc_tx_number(out.m), e |-> out.e]
    ELSE out

process(m, pkey, tx) == count_tx(dispatch(m, pkey, tx), tx)

Tx(command, data) == [command |-> command, data |-> data]

\* The transactions by command, as Transaction::decode builds them
InstallPlayerTx == Tx("InstallPlayer", <<>>)
TickTx == Tx("Tick", <<>>)
WithdrawTx(amount) == Tx("Withdraw", <<Limb(1, amount), 0, 0>>)
WithdrawPointsTx(amount) == Tx("WithdrawPoints", <<Limb(1, amount), 0, 0>>)
DepositTx(target, amount) == Tx("Deposit", <<target, amount>>)
CreateProductTypeTx(data) == Tx("CreateProductType", data)
ModifyProductTypeTx(data) == Tx("ModifyProductType", data)
PurchaseCertificateTx(product_type_id, amount) == Tx("PurchaseCertificate", <<product_type_id, amount>>)
ClaimInterestTx(certificate_id) == Tx("ClaimInterest", certificate_id)
RedeemPrincipalTx(certificate_id) == Tx("RedeemPrincipal", certificate_id)
AdminWithdrawToMultisigTx(amount) == Tx("AdminWithdrawToMultisig", amount)
SetReserveRatioTx(reserve_ratio) == Tx("SetReserveRatio", reserve_ratio)

-----------------------------------------------------------------------------
(* The ledger after construction, and the one the exploration starts from *)

Constructed ==
    Machine(GlobalState_new,
            [p \in Pids |-> None],
            [id \in 0..MaxProductId |-> None],
            [key \in Pids \X (1..MaxCertId) |-> None],
            <<>>)

\* The opening transactions: both accounts are installed, the admin creates
\* product type 1 at the maximum rate, funds alice, alice locks the deposit
\* in certificate 1 at tick 0, and BootTicks ticks pass.
Bootstrap ==
    <<  <<ADMIN_PUBKEY, InstallPlayerTx>>,
        <<"alice", InstallPlayerTx>>,
        <<ADMIN_PUBKEY,
          CreateProductTypeTx(<<BootDuration, MAX_APY_BASIS_POINTS,
                                MIN_CERTIFICATE_AMOUNT, 1>>)>>,
        <<ADMIN_PUBKEY, DepositTx("alice", BootPrincipal)>>,
        <<"alice", PurchaseCertificateTx(1, BootPrincipal)>> >>
    \o [i \in 1..BootTicks |-> <<ADMIN_PUBKEY, TickTx>>]

\* The ledger after the first n transactions of Bootstrap
RECURSIVE Run(_)
Run(n) ==
    IF n = 0 THEN Constructed
    ELSE process(Run(n - 1), Bootstrap[n][1], Bootstrap[n][2]).m

Booted == Run(Len(Bootstrap))

Init ==
    /\ state = Booted.state
    /\ players = Booted.players
    /\ productTypes = Booted.productTypes
    /\ certificates = Booted.certificates
    /\ settlement = Booted.settlement
    /\ call = None

-----------------------------------------------------------------------------
(* The operations a client can submit, with the inputs explored *)

\* u64::MAX less the bootstrap deposit: the largest deposit total_funds takes
BigDeposit == U64_MAX - BootPrincipal

DepositAmounts == {0, BigDeposit}
WithdrawAmounts == {MIN_CERTIFICATE_AMOUNT}
PointsAmounts == {0, 1}
PurchaseAmounts == {0, MIN_CERTIFICATE_AMOUNT, BootPrincipal + 1}
PurchaseProducts == 0..(MaxProductId + 1)
AdminWithdrawAmounts == {0, 1}
ReserveRatios == {MAX_RESERVE_RATIO, MAX_RESERVE_RATIO + 1}
CreateInputs ==
    {<<d, MAX_APY_BASIS_POINTS, a, f>> :
        d \in {0, 1}, a \in {MIN_CERTIFICATE_AMOUNT - 1, MIN_CERTIFICATE_AMOUNT},
        f \in {0, 1}}
\* A modification that retires the product with a minimum below the global
\* one, and one that keeps it on sale at another rate, term and minimum
ModifyInputs ==
    {<<id, 0, 1, MIN_CERTIFICATE_AMOUNT - 1, 0>> : id \in 0..(MaxProductId + 1)}
    \cup {<<id, 1, 2, MIN_CERTIFICATE_AMOUNT + 1, 1>> :
             id \in 0..(MaxProductId + 1)}
CertIds == 1..MaxCertId

M == Machine(state, players, productTypes, certificates, settlement)

\* The keys the call may write are in the storage of the model
Fits(m, tx) ==
    /\ tx.command = "CreateProductType"
         => m.state.product_type_counter <= MaxProductId
    /\ tx.command = "PurchaseCertificate"
         => m.state.certificate_counter <= MaxCertId

\* The host runs tx for pkey on ledger m to its end: nothing traps
Accepted(m, pkey, tx) == Fits(m, tx) /\ ~traps(m, pkey, tx)

\* The ledger a call of process leaves
Commit(out) ==
    /\ state' = out.m.state
    /\ players' = out.m.players
    /\ productTypes' = out.m.productTypes
    /\ certificates' = out.m.certificates
    /\ settlement' = out.m.settlement
    /\ call' = call

\* One call of Transaction::process by the host.  A call that returns an
\* error code and leaves the ledger as it was is a stuttering step.
Submit(pkey, tx) ==
    /\ Accepted(M, pkey, tx)
    /\ Commit(process(M, pkey, tx))

InstallPlayer(pkey) ==
    /\ state.txcounter < MaxTx
    /\ Submit(pkey, InstallPlayerTx)

Tick(pkey) ==
    /\ state.counter < MaxTick
    /\ Submit(pkey, TickTx)

Withdraw(pkey, amount) ==
    /\ state.txcounter < MaxTx
    /\ Submit(pkey, WithdrawTx(amount))

WithdrawPoints(pkey, amount) ==
    /\ state.txcounter < MaxTx
    /\ Submit(pkey, WithdrawPointsTx(amount))

Deposit(pkey, target, amount) ==
    /\ state.txcounter < MaxTx
    /\ Submit(pkey, DepositTx(target, amount))

CreateProductType(pkey, data) ==
    /\ state.txcounter < MaxTx
    /\ Submit(pkey, CreateProductTypeTx(data))

ModifyProductType(pkey, data) ==
    /\ state.txcounter < MaxTx
    /\ Submit(pkey, ModifyProductTypeTx(data))

PurchaseCertificate(pkey, product_type_id, amount) ==
    /\ state.txcounter < MaxTx
    /\ Submit(pkey, PurchaseCertificateTx(product_type_id, amount))

ClaimInterest(pkey, certificate_id) ==
    /\ state.txcounter < MaxTx
    /\ Submit(pkey, ClaimInterestTx(certificate_id))

RedeemPrincipal(pkey, certificate_id) ==
    /\ state.txcounter < MaxTx
    /\ Submit(pkey, RedeemPrincipalTx(certificate_id))

AdminWithdrawToMultisig(pkey, amount) ==
    /\ state.txcounter < MaxTx
    /\ Submit(pkey, AdminWithdrawToMultisigTx(amount))

SetReserveRatio(pkey, reserve_ratio) ==
    /\ state.txcounter < MaxTx
    /\ Submit(pkey, SetReserveRatioTx(reserve_ratio))

Next ==
    \/ \E pkey \in Pids : InstallPlayer(pkey)
    \/ \E pkey \in Pids : Tick(pkey)
    \/ \E pkey \in Pids, a \in WithdrawAmounts : Withdraw(pkey, a)
    \/ \E pkey \in Pids, a \in PointsAmounts : WithdrawPoints(pkey, a)
    \/ \E pkey \in Pids, t \in Pids, a \in DepositAmounts : Deposit(pkey, t, a)
    \/ \E pkey \in Pids, d \in CreateInputs : CreateProductType(pkey, d)
    \/ \E pkey \in Pids, d \in ModifyInputs : ModifyProductType(pkey, d)
    \/ \E pkey \in Pids, id \in PurchaseProducts, a \in PurchaseAmounts :
           PurchaseCertificate(pkey, id, a)
    \/ \E pkey \in Pids, id \in CertIds : ClaimInterest(pkey, id)
    \/ \E pkey \in Pids, id \in CertIds : RedeemPrincipal(pkey, id)
    \/ \E pkey \in Pids, a \in AdminWithdrawAmounts :
           AdminWithdrawToMultisig(pkey, a)
    \/ \E pkey \in Pids, r \in ReserveRatios : SetReserveRatio(pkey, r)

Spec == Init /\ [][Next]_vars

-----------------------------------------------------------------------------
(* What the properties below read from the ledger, and the call they judge *)

CertKeys == Pids \X CertIds

Stored(key) == certificates[key] # None

Cert(key) == certificates[key][1]

CertAfter(key) == certificates'[key][1]

Idle(pid) == players[pid][1].data.idle_funds

\* An accepted call that returns an error code leaves ledger m as it was
FailsClean(m, pkey, tx) ==
    (Accepted(m, pkey, tx) /\ process(m, pkey, tx).e # SUCCESS)
    => process(m, pkey, tx).m = m

-----------------------------------------------------------------------------
\* C1: every operation that returns a non-zero code leaves the whole ledger
\* as it was: the accounts, the certificates, the catalog, the global
\* counters and the settlement queue.
C1_FailureLeavesLedger ==
    \A pkey \in Pids :
       /\ FailsClean(M, pkey, InstallPlayerTx)
       /\ \A a \in WithdrawAmounts : FailsClean(M, pkey, WithdrawTx(a))
       /\ \A a \in PointsAmounts : FailsClean(M, pkey, WithdrawPointsTx(a))
       /\ \A t \in Pids, a \in DepositAmounts :
             FailsClean(M, pkey, DepositTx(t, a))
       /\ \A d \in CreateInputs : FailsClean(M, pkey, CreateProductTypeTx(d))
       /\ \A d \in ModifyInputs : FailsClean(M, pkey, ModifyProductTypeTx(d))
       /\ \A id \in PurchaseProducts, a \in PurchaseAmounts :
             FailsClean(M, pkey, PurchaseCertificateTx(id, a))
       /\ \A id \in CertIds : FailsClean(M, pkey, ClaimInterestTx(id))
       /\ \A id \in CertIds : FailsClean(M, pkey, RedeemPrincipalTx(id))
       /\ \A a \in AdminWithdrawAmounts :
             FailsClean(M, pkey, AdminWithdrawToMultisigTx(a))
       /\ \A r \in ReserveRatios : FailsClean(M, pkey, SetReserveRatioTx(r))

\* A PurchaseCertificate that returned an error code stored no certificate
\* and left certificate_counter as it was
PurchaseStoresNothing(m, out) ==
    out.e # SUCCESS
    => /\ out.m.certificates = m.certificates
       /\ out.m.state.certificate_counter = m.state.certificate_counter

\* C2: whenever PurchaseCertificate returns an error code, no certificate has
\* been stored and certificate_counter is unchanged.
C2_FailedPurchaseStoresNothing ==
    \A pkey \in Pids, id \in PurchaseProducts, a \in PurchaseAmounts :
       Accepted(M, pkey, PurchaseCertificateTx(id, a))
       => PurchaseStoresNothing(M,
              process(M, pkey, PurchaseCertificateTx(id, a)))

-----------------------------------------------------------------------------
(* The two sides of the conservation equation.  Either side can pass the
   largest integer the checker computes with, so each amount is split at
   Half and the two sides are compared part by part. *)

Half == 2 ^ 16

RECURSIVE SumOver(_, _)
SumOver(f, S) ==
    IF S = {} THEN 0
    ELSE LET x == CHOOSE y \in S : TRUE IN f[x] + SumOver(f, S \ {x})

\* What the accounts hold idle (under <<pid, 0>>) and the principal locked in
\* the certificates that are not Redeemed (under <<pid, certificate id>>)
HeldAmounts ==
    [key \in Pids \X (0..MaxCertId) |->
        IF key[2] = 0
        THEN IF players[key[1]] = None THEN 0 ELSE Idle(key[1])
        ELSE IF Stored(key) /\ Cert(key).status # Redeemed
             THEN Cert(key).principal
             ELSE 0]

BackingAmounts ==
    [n \in {"total_funds", "total_recharge_amount", "interest_claimed"} |->
        state[n]]

High(f) == [x \in DOMAIN f |-> f[x] \div Half]

Low(f) == [x \in DOMAIN f |-> f[x] % Half]

Total(f) == SumOver(f, DOMAIN f)

\* The amounts of f and of g have the same sum
SameSum(f, g) ==
    LET d == Total(High(f)) - Total(High(g)) IN
    /\ d \in -(Cardinality(DOMAIN f))..Cardinality(DOMAIN g)
    /\ d * Half = Total(Low(g)) - Total(Low(f))

\* C3: no value is created or destroyed: the idle balances of all accounts
\* plus the principal of all certificates that are not Redeemed equal
\* total_funds + total_recharge_amount + interest_claimed.
C3_ValueConserved == SameSum(HeldAmounts, BackingAmounts)

-----------------------------------------------------------------------------
\* RedeemPrincipal on certificate `key` of ledger m is refused as already
\* redeemed, and leaves m as it was
RedeemRefused(m, key) ==
    /\ process(m, key[1], RedeemPrincipalTx(key[2])).e
         = ERROR_CERTIFICATE_ALREADY_REDEEMED
    /\ process(m, key[1], RedeemPrincipalTx(key[2])).m = m

\* C4: once a certificate is Redeemed, a RedeemPrincipal on it fails with
\* CertificateAlreadyRedeemed and credits nothing, and after any step the
\* certificate is still Redeemed and a RedeemPrincipal on it still fails so.
C4_RedeemedOnce ==
    /\ [](\A key \in CertKeys :
            (Stored(key) /\ Cert(key).status = Redeemed)
            => RedeemRefused(M, key))
    /\ [][\A key \in CertKeys :
            (Stored(key) /\ Cert(key).status = Redeemed)
            => /\ certificates'[key] # None
               /\ CertAfter(key).status = Redeemed]_vars

\* alice's certificate 1 is Redeemed and its principal is in her idle balance,
\* a tick has passed since it matured, and a further RedeemPrincipal is refused
C4_Witness ==
    /\ Stored(<<"alice", 1>>)
    /\ Cert(<<"alice", 1>>).status = Redeemed
    /\ Idle("alice") >= BootPrincipal
    /\ state.counter > Cert(<<"alice", 1>>).maturity_time
    /\ RedeemRefused(M, <<"alice", 1>>)

\* The outcome of RedeemPrincipal on a certificate that is not Redeemed
RedeemsByMaturity(m, cert, out) ==
    IF m.state.counter < cert.maturity_time
    THEN /\ out.e = ERROR_CERTIFICATE_NOT_MATURED
         /\ out.m.certificates = m.certificates
    ELSE out.e = SUCCESS

\* C5: on a certificate the caller owns that is not Redeemed, RedeemPrincipal
\* fails with CertificateNotMatured below maturity_time, leaving the
\* certificate as it is, and succeeds at or after maturity_time.
C5_RedeemByMaturity ==
    \A key \in CertKeys :
       (Stored(key) /\ Cert(key).status # Redeemed)
       => RedeemsByMaturity(M, Cert(key),
              process(M, key[1], RedeemPrincipalTx(key[2])))

\* What a successful RedeemPrincipal on certificate `key` of ledger m leaves
RedeemEffect(m, key, out) ==
    out.e = SUCCESS
    => /\ m.certificates[key] # None
       /\ out.m.players[key[1]][1].data.idle_funds
            = m.players[key[1]][1].data.idle_funds
                + m.certificates[key][1].principal
       /\ out.m.certificates[key][1]
            = [m.certificates[key][1] EXCEPT !.status = Redeemed]
       /\ out.m.state.total_funds = m.state.total_funds
       /\ out.m.state.total_recharge_amount = m.state.total_recharge_amount
       /\ out.m.state.interest_claimed = m.state.interest_claimed

\* C6: a successful RedeemPrincipal adds exactly the certificate's principal
\* to the owner's idle balance, stores the status Redeemed, and leaves
\* total_funds, total_recharge_amount, interest_claimed and the certificate's
\* claimed interest as they were; no step changes the principal of a stored
\* certificate, so the amount is the principal recorded at purchase.
C6_RedeemEffect ==
    /\ [](\A key \in CertKeys :
            RedeemEffect(M, key, process(M, key[1], RedeemPrincipalTx(key[2]))))
    /\ [][\A key \in CertKeys :
            Stored(key) => CertAfter(key).principal = Cert(key).principal]_vars

\* alice has claimed interest on certificate 1 and then redeemed it: her idle
\* balance is the principal and the interest
C6_Witness ==
    /\ Stored(<<"alice", 1>>)
    /\ Cert(<<"alice", 1>>).status = Redeemed
    /\ Cert(<<"alice", 1>>).total_interest_claimed > 0
    /\ Idle("alice") = BootPrincipal + Cert(<<"alice", 1>>).total_interest_claimed

\* C7: a stored certificate stays stored and its status never moves back
\* along Active -> Matured -> Redeemed; Redeemed stays Redeemed.
C7_StatusForward ==
    [][\A key \in CertKeys :
         Stored(key)
         => /\ certificates'[key] # None
            /\ to_u64(CertAfter(key).status) >= to_u64(Cert(key).status)]_vars

\* alice has withdrawn from the principal of her redeemed certificate, which
\* is still Redeemed
C7_Witness ==
    /\ Stored(<<"alice", 1>>)
    /\ Cert(<<"alice", 1>>).status = Redeemed
    /\ Len(settlement) > 0
    /\ state.total_funds < BootPrincipal
    /\ Idle("alice") < BootPrincipal

-----------------------------------------------------------------------------
\* The times at which the interest of a certificate is evaluated
Times == 0..(MaxTick + 1)

TotalAt(cert, t) == calculate_total_simple_interest(cert, t)

AvailableAt(cert, t) == calculate_available_interest(cert, t)

\* total = claimed + available, total and available being the results of the
\* two calculations for one certificate at one time
Splits(cert, total, available) ==
    /\ total.ok
    /\ available.ok
    /\ total.v = cert.total_interest_claimed + available.v

\* C8, as stated: for every stored certificate and every t >= purchase_time,
\* the total interest at t is the interest claimed plus the interest
\* available at t.
C8_TotalIsClaimedPlusAvailable ==
    \A key \in CertKeys :
       Stored(key)
       => \A t \in Times :
             t >= Cert(key).purchase_time
             => Splits(Cert(key), TotalAt(Cert(key), t), AvailableAt(Cert(key), t))

\* The equation at the times where the total is not below the claimed
\* interest, which include the times from `now` on; zero available at the
\* other times
SplitsOrZero(cert, t, now, total, available) ==
    /\ total.ok
    /\ t >= now => total.v >= cert.total_interest_claimed
    /\ IF total.v >= cert.total_interest_claimed
       THEN available = Ok(total.v - cert.total_interest_claimed)
       ELSE available = Ok(0)

\* C8, amended: the equation holds at every t from the current tick counter
\* on, and at every t >= purchase_time whose total interest is not below the
\* interest claimed; at the other times the available interest is zero.
C8_TotalIsClaimedPlusAvailableFromNow ==
    \A key \in CertKeys :
       Stored(key)
       => \A t \in Times :
             t >= Cert(key).purchase_time
             => SplitsOrZero(Cert(key), t, state.counter,
                             TotalAt(Cert(key), t), AvailableAt(Cert(key), t))

\* Interest has been claimed on a certificate, and at an earlier time of its
\* life the total interest is below what is claimed now
C8_Witness ==
    \E key \in CertKeys : \E t \in Times :
       /\ Stored(key)
       /\ t >= Cert(key).purchase_time
       /\ Cert(key).total_interest_claimed > 0
       /\ TotalAt(Cert(key), t).v < Cert(key).total_interest_claimed

\* C9: each stored certificate's total_interest_claimed is at most the total
\* interest computed for it at the current tick counter.
C9_ClaimedAtMostEarned ==
    \A key \in CertKeys :
       Stored(key)
       => /\ TotalAt(Cert(key), state.counter).ok
          /\ Cert(key).total_interest_claimed
               <= TotalAt(Cert(key), state.counter).v

\* All the interest an Active certificate has earned by now is claimed and
\* is its owner's idle balance
C9_Witness ==
    \E key \in CertKeys :
       /\ Stored(key)
       /\ Cert(key).total_interest_claimed > 0
       /\ Cert(key).total_interest_claimed = TotalAt(Cert(key), state.counter).v
       /\ Cert(key).status = Active
       /\ players[key[1]][1].data.idle_funds = Cert(key).total_interest_claimed

\* What a successful ClaimInterest on certificate `key` of ledger m leaves,
\* x being the interest available at the tick counter of m
ClaimEffect(m, key, x, out) ==
    out.e = SUCCESS
    => /\ m.certificates[key] # None
       /\ x.ok /\ x.v > 0
       /\ out.m.players[key[1]][1].data.idle_funds
            = m.players[key[1]][1].data.idle_funds + x.v
       /\ out.m.certificates[key][1]
            = [m.certificates[key][1] EXCEPT !.total_interest_claimed = @ + x.v]
       /\ out.m.state.interest_claimed = m.state.interest_claimed + x.v
       /\ out.m.state.total_funds = m.state.total_funds
       /\ out.m.state.total_recharge_amount = m.state.total_recharge_amount

\* C10: a successful ClaimInterest claims X > 0, the interest available at
\* the current tick counter; it adds X to the owner's idle balance, to the
\* certificate's total_interest_claimed and to the global interest_claimed,
\* and leaves total_funds, total_recharge_amount and the rest of the
\* certificate (status and principal included) as they were.
C10_ClaimEffect ==
    \A key \in CertKeys :
       ClaimEffect(M, key,
                   IF Stored(key) THEN AvailableAt(Cert(key), state.counter)
                   ELSE Err(ERROR_CERTIFICATE_NOT_OWNED),
                   process(M, key[1], ClaimInterestTx(key[2])))

\* alice has claimed interest twice on certificate 1 while it is Active: the
\* interest of tick 58, and after a tick the interest added since
C10_Witness ==
    /\ Stored(<<"alice", 1>>)
    /\ Cert(<<"alice", 1>>).status = Active
    /\ Cert(<<"alice", 1>>).total_interest_claimed > 1
    /\ Idle("alice") = Cert(<<"alice", 1>>).total_interest_claimed
    /\ state.interest_claimed = Cert(<<"alice", 1>>).total_interest_claimed
    /\ state.txcounter = 7

-----------------------------------------------------------------------------
\* Certificate `key` is stored in ledger m and has no interest available at
\* the tick counter of m
Drained(m, key) ==
    /\ m.certificates[key] # None
    /\ calculate_available_interest(m.certificates[key][1], m.state.counter)
         = Ok(0)

\* ClaimInterest on certificate `key` of ledger m is refused for want of
\* interest, and leaves m as it was
ClaimRefused(m, key, out) ==
    /\ out.e = ERROR_INSUFFICIENT_INTEREST
    /\ out.m = m

\* A successful ClaimInterest leaves the certificate drained
ClaimDrains(key, out) == out.e = SUCCESS => Drained(out.m, key)

\* C11: after a successful ClaimInterest the interest available on the
\* certificate at that tick is 0; while a certificate has no interest
\* available a ClaimInterest on it fails with InsufficientInterest and changes
\* nothing; and no step other than a Tick makes interest available again.
C11_ClaimDrains ==
    /\ [](\A key \in CertKeys :
            /\ ClaimDrains(key, process(M, key[1], ClaimInterestTx(key[2])))
            /\ Drained(M, key)
                 => ClaimRefused(M, key,
                        process(M, key[1], ClaimInterestTx(key[2]))))
    /\ [][\A key \in CertKeys :
            (Drained(M, key) /\ state'.counter = state.counter)
            => /\ certificates'[key] # None
               /\ calculate_available_interest(CertAfter(key), state'.counter)
                    = Ok(0)]_vars

\* alice has claimed the interest of certificate 1 and has been credited
\* something else since, within the same tick: nothing is available on the
\* certificate and a further ClaimInterest is refused
C11_Witness ==
    /\ Drained(M, <<"alice", 1>>)
    /\ Cert(<<"alice", 1>>).total_interest_claimed > 0
    /\ Idle("alice") > Cert(<<"alice", 1>>).total_interest_claimed
    /\ ClaimRefused(M, <<"alice", 1>>,
                    process(M, "alice", ClaimInterestTx(1)))

-----------------------------------------------------------------------------
\* The step has written the catalog or advanced its counter: it is a
\* CreateProductType or a ModifyProductType that succeeded
CatalogWritten ==
    \/ productTypes' # productTypes
    \/ state'.product_type_counter # state.product_type_counter

\* The times at which the interest of a certificate is compared over a step:
\* its purchase, the tick counter before and after the step, its maturity, and
\* the last time of the model
InterestTimes(cert) ==
    {cert.purchase_time, state.counter, state'.counter, MaxTick + 1}
    \cup {t \in Times : t = cert.maturity_time}

\* The certificate has the same terms after the step, and the same interest
SameTerms(before, after) ==
    /\ after.locked_apy = before.locked_apy
    /\ after.maturity_time = before.maturity_time
    /\ after.principal = before.principal
    /\ after.status = before.status
    /\ \A t \in InterestTimes(before) :
          /\ TotalAt(after, t) = TotalAt(before, t)
          /\ AvailableAt(after, t) = AvailableAt(before, t)

\* C12: no CreateProductType and no ModifyProductType, whatever it returns
\* and whichever product it names, changes a stored certificate; over a step
\* that changes the catalog every stored certificate keeps its locked_apy,
\* maturity_time, principal and status, and the interest computed for it at
\* its purchase, now, at its maturity and at the last time of the model.
C12_TermsLocked ==
    /\ [](/\ \A d \in CreateInputs :
               Accepted(M, ADMIN_PUBKEY, CreateProductTypeTx(d))
               => process(M, ADMIN_PUBKEY, CreateProductTypeTx(d)).m.certificates
                    = certificates
          /\ \A d \in ModifyInputs :
               Accepted(M, ADMIN_PUBKEY, ModifyProductTypeTx(d))
               => process(M, ADMIN_PUBKEY, ModifyProductTypeTx(d)).m.certificates
                    = certificates)
    /\ [][CatalogWritten
          => \A key \in CertKeys :
                Stored(key)
                => /\ certificates'[key] # None
                   /\ SameTerms(Cert(key), CertAfter(key))]_vars

\* Product type 1, of which alice holds certificate 1 at the rate and term of
\* its purchase, is now on sale at another rate, term and minimum
C12_Witness ==
    /\ Stored(<<"alice", 1>>)
    /\ productTypes[1] # None
    /\ productTypes[1][1].apy # Cert(<<"alice", 1>>).locked_apy
    /\ productTypes[1][1].duration_ticks
         # Cert(<<"alice", 1>>).maturity_time - Cert(<<"alice", 1>>).purchase_time
    /\ productTypes[1][1].min_amount # MIN_CERTIFICATE_AMOUNT
    /\ Cert(<<"alice", 1>>).locked_apy = MAX_APY_BASIS_POINTS
    /\ Cert(<<"alice", 1>>).maturity_time = BootDuration

-----------------------------------------------------------------------------
\* The certificate a purchase of `amount` of `product` by `buyer` stores in
\* ledger m
PurchasedCertificate(m, buyer, product, amount) ==
    [id |-> m.state.certificate_counter,
     owner |-> buyer,
     product_type_id |-> product.id,
     principal |-> amount,
     purchase_time |-> m.state.counter,
     maturity_time |-> m.state.counter + product.duration_ticks,
     locked_apy |-> product.apy,
     total_interest_claimed |-> 0,
     status |-> Active]

\* A successful purchase has stored that certificate under the buyer
PurchaseStores(m, buyer, id, amount, out) ==
    out.e = SUCCESS
    => /\ get_product_type(m, id) # None
       /\ out.m.certificates[<<buyer, m.state.certificate_counter>>]
            = Some(PurchasedCertificate(m, buyer, get_product_type(m, id)[1],
                                        amount))

\* C13: a successful purchase stores a certificate whose owner is the buyer,
\* principal the amount, purchase_time the current tick counter, maturity_time
\* the purchase_time plus the duration the product has at that moment,
\* locked_apy the rate the product has at that moment, total_interest_claimed
\* 0 and status Active.
C13_PurchaseStores ==
    \A pkey \in Pids, id \in PurchaseProducts, a \in PurchaseAmounts :
       Accepted(M, pkey, PurchaseCertificateTx(id, a))
       => PurchaseStores(M, pkey, id, a,
                         process(M, pkey, PurchaseCertificateTx(id, a)))

\* A certificate bought of product type 1 after its rate and term were
\* modified carries the modified rate and term, beside certificate 1 bought
\* at the first ones
C13_Witness ==
    \E key \in CertKeys :
       /\ Stored(key)
       /\ Stored(<<"alice", 1>>)
       /\ Cert(key).product_type_id = 1
       /\ Cert(key).purchase_time >= BootTicks
       /\ Cert(key).locked_apy # Cert(<<"alice", 1>>).locked_apy
       /\ productTypes[1] # None
       /\ Cert(key).locked_apy = productTypes[1][1].apy
       /\ Cert(key).maturity_time
            = Cert(key).purchase_time + productTypes[1][1].duration_ticks
       /\ Cert(key).status = Active

-----------------------------------------------------------------------------
\* The amounts a purchase is judged with: those submitted, and the global
\* limits with their neighbours
PurchaseCheckAmounts ==
    PurchaseAmounts
    \cup {MIN_CERTIFICATE_AMOUNT - 1, MIN_CERTIFICATE_AMOUNT + 1,
          MAX_CERTIFICATE_AMOUNT, MAX_CERTIFICATE_AMOUNT + 1}

NoRefusal == "NoRefusal"

\* The refusal the amount and the product call for, for a buyer whose idle
\* balance covers the amount
RefusalOfCovered(m, id, amount) ==
    IF amount < MIN_CERTIFICATE_AMOUNT \/ amount > MAX_CERTIFICATE_AMOUNT
    THEN ERROR_INVALID_PRINCIPAL_AMOUNT
    ELSE IF get_product_type(m, id) = None THEN ERROR_PRODUCT_TYPE_NOT_EXIST
    ELSE IF ~get_product_type(m, id)[1].is_active
    THEN ERROR_PRODUCT_TYPE_INACTIVE
    ELSE IF amount < get_product_type(m, id)[1].min_amount
    THEN ERROR_PRINCIPAL_AMOUNT_TOO_SMALL
    ELSE NoRefusal

\* The refusal a purchase of `amount` of product `id` calls for in ledger m,
\* by a buyer with idle balance `idle`
PurchaseRefusal(m, idle, id, amount) ==
    IF idle >= amount THEN RefusalOfCovered(m, id, amount)
    ELSE ERROR_INSUFFICIENT_BALANCE

\* The purchase is refused with `refusal`, if there is one, and then no
\* certificate is created
RefusedAs(m, refusal, out) ==
    refusal # NoRefusal
    => /\ out.e = refusal
       /\ out.m.certificates = m.certificates
       /\ out.m.state.certificate_counter = m.state.certificate_counter

\* C14: for a buyer whose idle balance covers the amount, PurchaseCertificate
\* fails with InvalidPrincipalAmount if the amount is outside
\* [MIN_CERTIFICATE_AMOUNT, MAX_CERTIFICATE_AMOUNT], otherwise with
\* ProductTypeNotExist if the product id is unknown, otherwise with
\* ProductTypeInactive if the product is inactive, otherwise with
\* PrincipalAmountTooSmall if the amount is below the product's minimum; a
\* buyer whose idle balance is below the amount gets InsufficientBalance; in
\* each of these cases no certificate is created.
C14_PurchaseRefusals ==
    \A pkey \in Pids, id \in PurchaseProducts, a \in PurchaseCheckAmounts :
       (players[pkey] # None /\ Accepted(M, pkey, PurchaseCertificateTx(id, a)))
       => RefusedAs(M, PurchaseRefusal(M, Idle(pkey), id, a),
                    process(M, pkey, PurchaseCertificateTx(id, a)))

\* alice's idle balance covers every amount judged, product type 1 is on
\* sale with a minimum above the global one and product type 2 is retired:
\* each of the five refusals is what some purchase gets
C14_Witness ==
    /\ players["alice"] # None
    /\ players[ADMIN_PUBKEY] # None
    /\ Idle("alice") > MAX_CERTIFICATE_AMOUNT
    /\ Idle(ADMIN_PUBKEY) = 0
    /\ state.certificate_counter <= MaxCertId
    /\ process(M, "alice", PurchaseCertificateTx(1, MAX_CERTIFICATE_AMOUNT + 1)).e
         = ERROR_INVALID_PRINCIPAL_AMOUNT
    /\ process(M, "alice", PurchaseCertificateTx(MaxProductId + 1,
                                                 MIN_CERTIFICATE_AMOUNT)).e
         = ERROR_PRODUCT_TYPE_NOT_EXIST
    /\ process(M, "alice", PurchaseCertificateTx(2, MIN_CERTIFICATE_AMOUNT)).e
         = ERROR_PRODUCT_TYPE_INACTIVE
    /\ process(M, "alice", PurchaseCertificateTx(1, MIN_CERTIFICATE_AMOUNT)).e
         = ERROR_PRINCIPAL_AMOUNT_TOO_SMALL
    /\ process(M, ADMIN_PUBKEY,
               PurchaseCertificateTx(1, MIN_CERTIFICATE_AMOUNT + 1)).e
         = ERROR_INSUFFICIENT_BALANCE

-----------------------------------------------------------------------------
\* What a successful purchase of `amount` of product `id` by `buyer` leaves
\* of the buyer's idle balance and of the two totals
PurchaseEffect(m, buyer, id, amount, out) ==
    out.e = SUCCESS
    => /\ out.m.players[buyer][1].data.idle_funds
            = m.players[buyer][1].data.idle_funds - amount
       /\ id # 0
            => /\ out.m.state.total_funds = m.state.total_funds
               /\ out.m.state.total_recharge_amount
                    = m.state.total_recharge_amount
       /\ id = 0
            => /\ out.m.state.total_funds = m.state.total_funds - amount
               /\ out.m.state.total_recharge_amount
                    = m.state.total_recharge_amount + amount
       /\ m.state.total_funds - out.m.state.total_funds
            = out.m.state.total_recharge_amount - m.state.total_recharge_amount

\* C15: a successful purchase takes exactly the amount from the buyer's idle
\* balance; of a product other than 0 it leaves total_funds and
\* total_recharge_amount as they were; of product 0 it moves the amount from
\* total_funds to total_recharge_amount; either way what total_funds loses
\* total_recharge_amount gains.
C15_PurchaseEffect ==
    \A pkey \in Pids, id \in PurchaseProducts, a \in PurchaseAmounts :
       Accepted(M, pkey, PurchaseCertificateTx(id, a))
       => PurchaseEffect(M, pkey, id, a,
                         process(M, pkey, PurchaseCertificateTx(id, a)))

\* A certificate of the recharge product has been bought: its principal has
\* left total_funds for total_recharge_amount
C15_Witness ==
    \E key \in CertKeys :
       /\ Stored(key)
       /\ Cert(key).product_type_id = 0
       /\ state.total_recharge_amount = Cert(key).principal
       /\ state.total_funds = BootPrincipal - Cert(key).principal
       /\ Idle(key[1]) > 0

-----------------------------------------------------------------------------
\* The ids given so far: the created products are 1 .. product_type_counter-1,
\* each stored under its id; each certificate is stored under its owner and
\* its id, below certificate_counter, and no two certificates share an id
IdsDistinct ==
    /\ GlobalState_new.product_type_counter = 1
    /\ GlobalState_new.certificate_counter = 1
    /\ \A i \in DOMAIN productTypes :
          productTypes[i] # None => productTypes[i][1].id = i
    /\ \A i \in 1..MaxProductId :
          productTypes[i] # None <=> i < state.product_type_counter
    /\ \A key \in CertKeys :
          Stored(key)
          => /\ Cert(key).id = key[2]
             /\ Cert(key).owner = key[1]
             /\ 1 <= key[2] /\ key[2] < state.certificate_counter
    /\ \A k1, k2 \in CertKeys :
          (Stored(k1) /\ Stored(k2) /\ k1 # k2) => Cert(k1).id # Cert(k2).id

\* A step that creates a product or stores a new certificate gives it the
\* value of the counter, at least 1, and advances the counter by one; the
\* counters never go back
IdsAscend ==
    /\ state'.product_type_counter >= state.product_type_counter
    /\ state'.certificate_counter >= state.certificate_counter
    /\ \A i \in 1..MaxProductId :
          (productTypes[i] = None /\ productTypes'[i] # None)
          => /\ i = state.product_type_counter
             /\ state'.product_type_counter = i + 1
    /\ state'.product_type_counter # state.product_type_counter
          => productTypes'[state.product_type_counter] # None
    /\ \A key \in CertKeys :
          (~Stored(key) /\ certificates'[key] # None)
          => /\ key[2] = state.certificate_counter
             /\ state'.certificate_counter = key[2] + 1

\* C16: identifiers are unique and given in ascending order: successive
\* successful CreateProductType operations give 1, 2, 3, ..., the certificates
\* stored by successive purchases have strictly increasing ids from 1, no two
\* certificates and no two catalog entries share an id, and no created
\* product has id 0.
C16_IdsUniqueAscending == []IdsDistinct /\ [][IdsAscend]_vars

\* A second product type has been created and a second certificate bought
C16_Witness ==
    /\ state.product_type_counter = 3
    /\ productTypes[2] # None
    /\ state.certificate_counter = 3
    /\ \E p \in Pids : Stored(<<p, 2>>)
    /\ Stored(<<"alice", 1>>)

-----------------------------------------------------------------------------
\* The limits CreateProductType holds a product to
ValidProduct(product_type) ==
    /\ 0 < product_type.duration_ticks
    /\ product_type.duration_ticks <= MAX_CERTIFICATE_DURATION_TICKS
    /\ product_type.apy <= MAX_APY_BASIS_POINTS
    /\ MIN_CERTIFICATE_AMOUNT <= product_type.min_amount
    /\ product_type.min_amount <= MAX_CERTIFICATE_AMOUNT

\* C17: after any sequence of CreateProductType and ModifyProductType
\* operations every stored catalog entry has 0 < duration <=
\* MAX_CERTIFICATE_DURATION_TICKS, rate <= MAX_APY_BASIS_POINTS and
\* MIN_CERTIFICATE_AMOUNT <= min_amount <= MAX_CERTIFICATE_AMOUNT.
C17_CatalogValid ==
    \A i \in DOMAIN productTypes :
       productTypes[i] # None => ValidProduct(productTypes[i][1])

-----------------------------------------------------------------------------
\* The recharge product as a lookup of id 0 gives it in ledger m
RechargeProductFixed(m) ==
    /\ get_product_type(m, 0) # None
    /\ get_product_type(m, 0)[1].id = 0
    /\ get_product_type(m, 0)[1].is_active
    /\ get_product_type(m, 0)[1].apy = 0
    /\ get_product_type(m, 0)[1].duration_ticks = MAX_CERTIFICATE_DURATION_TICKS

\* C18: in every reachable state, whatever ModifyProductType has been given
\* for id 0, a lookup of id 0 yields an active product with rate 0 and
\* duration MAX_CERTIFICATE_DURATION_TICKS, and no purchase of product 0 is
\* refused as ProductTypeNotExist or ProductTypeInactive.
C18_RechargeProductFixed ==
    /\ RechargeProductFixed(M)
    /\ \A pkey \in Pids, a \in PurchaseCheckAmounts :
          Accepted(M, pkey, PurchaseCertificateTx(0, a))
          => process(M, pkey, PurchaseCertificateTx(0, a)).e
               \notin {ERROR_PRODUCT_TYPE_NOT_EXIST, ERROR_PRODUCT_TYPE_INACTIVE}

\* ModifyProductType has been given id 0 with the inactive flag, and a
\* purchase of product 0 by alice, who has the funds, succeeds all the same
C18_Witness ==
    /\ productTypes[0] # None
    /\ ~productTypes[0][1].is_active
    /\ players["alice"] # None
    /\ Idle("alice") >= MIN_CERTIFICATE_AMOUNT
    /\ state.certificate_counter <= MaxCertId
    /\ process(M, "alice", PurchaseCertificateTx(0, MIN_CERTIFICATE_AMOUNT)).e
         = SUCCESS

-----------------------------------------------------------------------------
\* C19: no operation writes a catalog record under identifier 0: in every
\* reachable state the product-type storage holds no entry under id 0.
C19_NothingStoredUnderZero == productTypes[0] = None

-----------------------------------------------------------------------------
\* calculate_available_funds on the state of ledger m
AvailableFunds(m) ==
    calculate_available_funds(m.state.total_funds,
                              m.state.cumulative_admin_withdrawals,
                              m.state.total_recharge_amount,
                              m.state.reserve_ratio)

\* The amounts a privileged withdrawal is judged with: those submitted, and
\* the available funds `available` with the amount next above
AdminCheckAmounts(available) ==
    AdminWithdrawAmounts
    \cup (IF available.ok THEN {available.v, available.v + 1} ELSE {})

\* The outcome of a privileged withdrawal of `amount` from ledger m
AdminWithdrawGated(m, available, amount, out) ==
    /\ out.e = SUCCESS
         => /\ available.ok /\ amount <= available.v
            /\ out.m.state.cumulative_admin_withdrawals
                 = m.state.cumulative_admin_withdrawals + amount
            /\ out.m.state.total_funds = m.state.total_funds
            /\ out.m.state.total_recharge_amount = m.state.total_recharge_amount
            /\ \A p \in Pids :
                  /\ out.m.players[p] = None <=> m.players[p] = None
                  /\ m.players[p] # None
                       => out.m.players[p][1].data.idle_funds
                            = m.players[p][1].data.idle_funds
    /\ (available.ok /\ amount > available.v)
         => /\ out.e = ERROR_INSUFFICIENT_BALANCE
            /\ out.m.state.cumulative_admin_withdrawals
                 = m.state.cumulative_admin_withdrawals

\* C20: a privileged withdrawal of amount A succeeds only if A is at most
\* calculate_available_funds of the current state; one above it fails with
\* InsufficientBalance and leaves cumulative_admin_withdrawals as it was; a
\* successful one adds exactly A to cumulative_admin_withdrawals and leaves
\* total_funds, total_recharge_amount and every idle balance as they were.
C20_AdminWithdrawGated ==
    \A a \in AdminCheckAmounts(AvailableFunds(M)) :
       Accepted(M, ADMIN_PUBKEY, AdminWithdrawToMultisigTx(a))
       => AdminWithdrawGated(M, AvailableFunds(M), a,
              process(M, ADMIN_PUBKEY, AdminWithdrawToMultisigTx(a)))

\* The admin has withdrawn before; now a withdrawal of all the available
\* funds succeeds and one of a unit more is refused
C20_Witness ==
    /\ state.cumulative_admin_withdrawals > 0
    /\ players[ADMIN_PUBKEY] # None
    /\ AvailableFunds(M).ok
    /\ AvailableFunds(M).v > 0
    /\ process(M, ADMIN_PUBKEY,
               AdminWithdrawToMultisigTx(AvailableFunds(M).v)).e = SUCCESS
    /\ process(M, ADMIN_PUBKEY,
               AdminWithdrawToMultisigTx(AvailableFunds(M).v + 1)).e
         = ERROR_INSUFFICIENT_BALANCE

-----------------------------------------------------------------------------
(* Deposits and privileged withdrawals alone, the reserve ratio being the
   one the ledger is constructed with *)

MaxReserveTx == 9       \* they are submitted while txcounter < MaxReserveTx

ReserveDepositAmounts == {1, MIN_CERTIFICATE_AMOUNT}

\* All that calculate_available_funds allows, or a unit
ReserveWithdrawAmount(available, all) ==
    IF all /\ available.ok THEN available.v ELSE 1

ReserveDeposit(target, amount) ==
    /\ state.txcounter < MaxReserveTx
    /\ Submit(ADMIN_PUBKEY, DepositTx(target, amount))

ReserveWithdraw(all) ==
    /\ state.txcounter < MaxReserveTx
    /\ Submit(ADMIN_PUBKEY,
              AdminWithdrawToMultisigTx(
                  ReserveWithdrawAmount(AvailableFunds(M), all)))

NextReserve ==
    \/ \E t \in Pids, a \in ReserveDepositAmounts : ReserveDeposit(t, a)
    \/ \E all \in BOOLEAN : ReserveWithdraw(all)

SpecReserve == Init /\ [][NextReserve]_vars

\* The share of the aggregate funds that is not the reserve
Extractable ==
    ((state.total_funds + state.total_recharge_amount)
        * (BASIS_POINTS_DIVISOR - state.reserve_ratio)) \div BASIS_POINTS_DIVISOR

\* C21: in every state reached by deposits and privileged withdrawals with
\* the reserve ratio held at r, cumulative_admin_withdrawals is at most
\* floor((total_funds + total_recharge_amount) * (10000 - r) / 10000).
C21_ReserveWithheld == state.cumulative_admin_withdrawals <= Extractable

-----------------------------------------------------------------------------
(* calculate_available_funds evaluated on its own, on arguments drawn from
   the values at which its branches and its checked operations turn *)

FundsValues ==
    {0, 1, 9, BASIS_POINTS_DIVISOR, BootPrincipal,
     U64_MAX \div (BASIS_POINTS_DIVISOR - DEFAULT_RESERVE_RATIO),
     U64_MAX \div (BASIS_POINTS_DIVISOR - DEFAULT_RESERVE_RATIO) + 1, U64_MAX}

CumulativeValues == {0, 1, BASIS_POINTS_DIVISOR + 1, U64_MAX}

RechargeValues == {0, 1, U64_MAX}

RatioValues ==
    {0, 1, DEFAULT_RESERVE_RATIO, MAX_RESERVE_RATIO, BASIS_POINTS_DIVISOR - 1,
     BASIS_POINTS_DIVISOR, BASIS_POINTS_DIVISOR + 1}

EvalAvailableFunds(total_funds, cumulative, recharge, ratio) ==
    /\ call' = Some([args |-> <<total_funds, cumulative, recharge, ratio>>,
                     result |-> calculate_available_funds(total_funds, cumulative,
                                                          recharge, ratio)])
    /\ UNCHANGED <<state, players, productTypes, certificates, settlement>>

NextFunds ==
    \E tf \in FundsValues, c \in CumulativeValues, tr \in RechargeValues,
       r \in RatioValues : EvalAvailableFunds(tf, c, tr, r)

SpecFunds == Init /\ [][NextFunds]_vars

\* max(0, total_funds + recharge - cumulative), the sum fitting the word
WithdrawableBase(args) ==
    IF args[1] + args[3] >= args[2] THEN args[1] + args[3] - args[2] ELSE 0

\* total_funds + recharge fits the word, the ratio is at most 10000 and the
\* product of the base and the multiplier fits the word
FundsArgsFit(args) ==
    /\ args[1] <= U64_MAX - args[3]
    /\ args[4] <= BASIS_POINTS_DIVISOR
    /\ args[4] < BASIS_POINTS_DIVISOR
         => WithdrawableBase(args) <= U64_MAX \div (BASIS_POINTS_DIVISOR - args[4])

FundsFormula(args) ==
    (WithdrawableBase(args) * (BASIS_POINTS_DIVISOR - args[4]))
        \div BASIS_POINTS_DIVISOR

\* C22: calculate_available_funds(total_funds, cumulative, recharge, ratio)
\* returns floor(max(0, total_funds + recharge - cumulative) * (10000 - ratio)
\* / 10000) whenever total_funds + recharge and the product fit the word and
\* ratio <= 10000; when cumulative exceeds total_funds + recharge it returns
\* 0, not an underflow error.
C22_AvailableFundsFormula ==
    (call # None /\ FundsArgsFit(call[1].args))
    => /\ call[1].result = Ok(FundsFormula(call[1].args))
       /\ call[1].args[2] > call[1].args[1] + call[1].args[3]
            => call[1].result = Ok(0)

\* An evaluation whose product is not a multiple of 10000, so that the
\* division rounds down, the withdrawals being below the funds
C22_Witness ==
    /\ call # None
    /\ FundsArgsFit(call[1].args)
    /\ call[1].args[2] > 0
    /\ call[1].args[4] > 0
    /\ call[1].result.ok
    /\ call[1].result.v > 0
    /\ (WithdrawableBase(call[1].args)
          * (BASIS_POINTS_DIVISOR - call[1].args[4])) % BASIS_POINTS_DIVISOR # 0


\* The evaluation at another reserve ratio, the other arguments kept
AtRatio(args, ratio) ==
    calculate_available_funds(args[1], args[2], args[3], ratio)

\* The evaluation at another total_funds, the other arguments kept
AtFunds(args, total_funds) ==
    calculate_available_funds(total_funds, args[2], args[3], args[4])

\* C23: calculate_available_funds is non-increasing in reserve_ratio and
\* non-decreasing in total_funds: of two evaluations that both return a value
\* and differ in one of these arguments only, the one with the larger ratio
\* returns no more and the one with the larger total_funds returns no less.
C23_AvailableFundsMonotone ==
    (call # None /\ call[1].result.ok)
    => /\ \A r \in RatioValues :
            (r >= call[1].args[4] /\ AtRatio(call[1].args, r).ok)
            => AtRatio(call[1].args, r).v <= call[1].result.v
       /\ \A tf \in FundsValues :
            (tf >= call[1].args[1] /\ AtFunds(call[1].args, tf).ok)
            => AtFunds(call[1].args, tf).v >= call[1].result.v

\* An evaluation that a larger ratio strictly lowers and a larger
\* total_funds strictly raises
C23_Witness ==
    /\ call # None
    /\ call[1].result.ok
    /\ \E r \in RatioValues :
         /\ r > call[1].args[4]
         /\ AtRatio(call[1].args, r).ok
         /\ AtRatio(call[1].args, r).v < call[1].result.v
    /\ \E tf \in FundsValues :
         /\ tf > call[1].args[1]
         /\ AtFunds(call[1].args, tf).ok
         /\ AtFunds(call[1].args, tf).v > call[1].result.v


\* The arguments calculate_available_funds is given in ledger m
LedgerFundsArgs(m) ==
    <<m.state.total_funds, m.state.cumulative_admin_withdrawals,
      m.state.total_recharge_amount, m.state.reserve_ratio>>

\* A returned value is at most total_funds + recharge - cumulative, which is
\* negative when the withdrawals exceed the funds
BelowRemainder(args, result) ==
    result.ok => result.v <= args[1] + args[3] - args[2]

\* A returned value is at most max(0, total_funds + recharge - cumulative)
BelowRemainderOrZero(args, result) ==
    result.ok => result.v <= WithdrawableBase(args)

\* C24 as stated: for all inputs, and in every reachable ledger state, the
\* value returned by calculate_available_funds never exceeds
\* total_funds + total_recharge_amount - cumulative_admin_withdrawals.
C24_BelowRemainder ==
    /\ call # None => BelowRemainder(call[1].args, call[1].result)
    /\ BelowRemainder(LedgerFundsArgs(M), AvailableFunds(M))

\* C24 amended: for all inputs, and in every reachable ledger state, the
\* value returned by calculate_available_funds never exceeds
\* max(0, total_funds + total_recharge_amount - cumulative_admin_withdrawals):
\* it is 0 when the withdrawals exceed the funds.
C24_BelowRemainderOrZero ==
    /\ call # None => BelowRemainderOrZero(call[1].args, call[1].result)
    /\ BelowRemainderOrZero(LedgerFundsArgs(M), AvailableFunds(M))

\* An evaluation with withdrawals above the funds, which returns 0
C24_Witness ==
    /\ call # None
    /\ call[1].args[1] <= U64_MAX - call[1].args[3]
    /\ call[1].args[2] > call[1].args[1] + call[1].args[3]
    /\ call[1].args[4] < BASIS_POINTS_DIVISOR
    /\ call[1].result = Ok(0)


-----------------------------------------------------------------------------
\* Ratios above the cap that a privileged SetReserveRatio may ask for
RatiosAboveCap == {MAX_RESERVE_RATIO + 1, BASIS_POINTS_DIVISOR, U64_MAX}

\* The privileged SetReserveRatio(ratio) is refused in ledger m, which it
\* leaves as it was
RatioRefused(m, ratio, out) ==
    /\ Accepted(m, ADMIN_PUBKEY, SetReserveRatioTx(ratio))
    /\ out.e = ERROR_INVALID_STAKE_AMOUNT
    /\ out.m = m

\* C25: reserve_ratio is at most 5000 basis points in every reachable state:
\* it starts at 1000, a SetReserveRatio above MAX_RESERVE_RATIO fails and
\* leaves it (and the ledger) unchanged, and a step that changes it is a
\* successful privileged SetReserveRatio of the new value.
C25_RatioCapped ==
    /\ state.reserve_ratio = DEFAULT_RESERVE_RATIO
    /\ [](/\ state.reserve_ratio <= MAX_RESERVE_RATIO
          /\ \A r \in RatiosAboveCap :
                RatioRefused(M, r, process(M, ADMIN_PUBKEY, SetReserveRatioTx(r))))
    /\ [][state'.reserve_ratio # state.reserve_ratio
          => /\ process(M, ADMIN_PUBKEY,
                        SetReserveRatioTx(state'.reserve_ratio)).e = SUCCESS
             /\ process(M, ADMIN_PUBKEY,
                        SetReserveRatioTx(state'.reserve_ratio)).m.state = state']_vars

\* The ratio has been set to the cap, above which the next request fails
C25_Witness ==
    /\ state.reserve_ratio = MAX_RESERVE_RATIO
    /\ state.reserve_ratio # DEFAULT_RESERVE_RATIO
    /\ process(M, ADMIN_PUBKEY, SetReserveRatioTx(MAX_RESERVE_RATIO + 1)).e
         = ERROR_INVALID_STAKE_AMOUNT


-----------------------------------------------------------------------------
\* The ledger the host holds after the call: that of process when it runs
\* to its end, the one before the call when it traps
Committed(m, pkey, tx) ==
    IF traps(m, pkey, tx) THEN m ELSE process(m, pkey, tx).m

\* The call is not run to its end and the ledger stays as it was
Gated(m, pkey, tx) ==
    /\ ~Accepted(m, pkey, tx)
    /\ Committed(m, pkey, tx) = m

\* C26: no Tick, Deposit, CreateProductType, ModifyProductType,
\* AdminWithdrawToMultisig or SetReserveRatio submitted by an actor other than
\* the privileged identity changes the ledger: the call traps at the require
\* of the key, before its handler runs, and the host commits nothing.
C26_PrivilegedKindsGated ==
    \A pkey \in Pids \ {ADMIN_PUBKEY} :
        /\ Gated(M, pkey, TickTx)
        /\ \A t \in Pids, a \in DepositAmounts \cup {1} :
              Gated(M, pkey, DepositTx(t, a))
        /\ \A d \in CreateInputs : Gated(M, pkey, CreateProductTypeTx(d))
        /\ \A d \in ModifyInputs : Gated(M, pkey, ModifyProductTypeTx(d))
        /\ \A a \in AdminWithdrawAmounts :
              Gated(M, pkey, AdminWithdrawToMultisigTx(a))
        /\ \A r \in ReserveRatios : Gated(M, pkey, SetReserveRatioTx(r))

\* bob has installed an account and asks for a deposit to himself, a
\* product and a ratio that the privileged account would be granted
C26_Witness ==
    /\ players["bob"] # None
    /\ state.product_type_counter <= MaxProductId
    /\ state.reserve_ratio # MAX_RESERVE_RATIO
    /\ process(M, ADMIN_PUBKEY, DepositTx("bob", 1)).e = SUCCESS
    /\ process(M, ADMIN_PUBKEY, DepositTx("bob", 1)).m # M
    /\ process(M, ADMIN_PUBKEY,
               CreateProductTypeTx(<<1, MAX_APY_BASIS_POINTS,
                                     MIN_CERTIFICATE_AMOUNT, 1>>)).e = SUCCESS
    /\ process(M, ADMIN_PUBKEY, SetReserveRatioTx(MAX_RESERVE_RATIO)).e = SUCCESS
    /\ Committed(M, "bob", DepositTx("bob", 1)) = M


-----------------------------------------------------------------------------
\* C27: the tick counter advances only through the privileged Tick: each
\* Tick succeeds and increases it by exactly 1 (changing nothing else), a
\* Tick of another actor is not run, and a step that changes the counter,
\* whatever it returns, is such a Tick; the counter never decreases.
C27_CounterByTick ==
    /\ [](/\ Accepted(M, ADMIN_PUBKEY, TickTx)
          /\ process(M, ADMIN_PUBKEY, TickTx).e = SUCCESS
          /\ process(M, ADMIN_PUBKEY, TickTx).m
               = [M EXCEPT !.state.counter = state.counter + 1]
          /\ \A pkey \in Pids \ {ADMIN_PUBKEY} : ~Accepted(M, pkey, TickTx))
    /\ [][/\ state'.counter >= state.counter
          /\ state'.counter # state.counter
               => /\ state'.counter = state.counter + 1
                  /\ state' = process(M, ADMIN_PUBKEY, TickTx).m.state
                  /\ UNCHANGED <<players, productTypes, certificates,
                                 settlement>>]_vars

\* Two ticks have passed and bob has installed his account in between or
\* around them
C27_Witness ==
    /\ state.counter = BootTicks + 2
    /\ players["bob"] # None


-----------------------------------------------------------------------------
\* The call is refused as made on a certificate the caller does not hold, and
\* leaves the ledger as it was
NotOwned(m, out) ==
    /\ out.e = ERROR_CERTIFICATE_NOT_OWNED
    /\ out.m = m

\* C28: a ClaimInterest or RedeemPrincipal issued by an account (a stored
\* player) other than the one that purchased the certificate fails with
\* CertificateNotOwned and changes nothing; every certificate is stored under
\* its purchaser, and a step that changes a stored certificate (a claim or a
\* redemption) changes the balance of no account but its purchaser's.
C28_OnlyPurchaserPaid ==
    /\ [](/\ \A key \in CertKeys : Stored(key) => Cert(key).owner = key[1]
          /\ \A pkey \in Pids, id \in CertIds :
                (players[pkey] # None /\ ~Stored(<<pkey, id>>))
                => /\ NotOwned(M, process(M, pkey, ClaimInterestTx(id)))
                   /\ NotOwned(M, process(M, pkey, RedeemPrincipalTx(id))))
    /\ [][\A key \in CertKeys :
            (Stored(key) /\ certificates'[key] # certificates[key])
            => \A p \in Pids \ {key[1]} : players'[p] = players[p]]_vars

\* alice has been paid interest on certificate 1, which she may now redeem,
\* and bob, who has an account, is refused its principal
C28_Witness ==
    /\ Stored(<<"alice", 1>>)
    /\ Cert(<<"alice", 1>>).total_interest_claimed > 0
    /\ players["bob"] # None
    /\ process(M, "alice", RedeemPrincipalTx(1)).e = SUCCESS
    /\ process(M, "bob", RedeemPrincipalTx(1)).e = ERROR_CERTIFICATE_NOT_OWNED


-----------------------------------------------------------------------------
(* The event id of process, and the ledger near the tick at which the shift
   of the counter drops its high bits.  The 64-bit word is scaled to the 31
   bits of U64_MAX, and the shift by 32 to the shift by 16 of Half. *)

\* The counter at which counter << 32 returns to 0
CounterWrap == (U64_MAX \div Half) + 1

\* (state.counter << 32) + state.txcounter
eventid(s) == ((s.counter % CounterWrap) * Half) + s.txcounter

MaxEventTx == 8         \* non-Tick operations while txcounter < MaxEventTx

\* The ledger BootTicks ticks after the purchase, CounterWrap - 2 ticks
\* after it
InitEvents ==
    /\ state = [Booted.state EXCEPT !.counter = CounterWrap - 2]
    /\ players = Booted.players
    /\ productTypes = Booted.productTypes
    /\ certificates = Booted.certificates
    /\ settlement = Booted.settlement
    /\ call = None

EventTick ==
    /\ state.counter <= CounterWrap
    /\ Submit(ADMIN_PUBKEY, TickTx)

EventInstallPlayer(pkey) ==
    /\ state.txcounter < MaxEventTx
    /\ Submit(pkey, InstallPlayerTx)

EventDeposit(target, amount) ==
    /\ state.txcounter < MaxEventTx
    /\ Submit(ADMIN_PUBKEY, DepositTx(target, amount))

EventWithdraw(pkey, amount) ==
    /\ state.txcounter < MaxEventTx
    /\ Submit(pkey, WithdrawTx(amount))

NextEvents ==
    \/ EventTick
    \/ \E pkey \in Pids : EventInstallPlayer(pkey)
    \/ \E t \in Pids, a \in {0, 1, MIN_CERTIFICATE_AMOUNT} : EventDeposit(t, a)
    \/ \E pkey \in Pids, a \in WithdrawAmounts : EventWithdraw(pkey, a)

SpecEvents == InitEvents /\ [][NextEvents]_vars

\* A successful command other than Tick advances txcounter by exactly 1 and
\* leaves the counter, a Tick advances the counter by 1 and leaves txcounter,
\* a failed command leaves both
Advances(m, tx, out) ==
    /\ (out.e = SUCCESS /\ tx.command # "Tick")
         => /\ out.m.state.txcounter = m.state.txcounter + 1
            /\ out.m.state.counter = m.state.counter
    /\ (out.e = SUCCESS /\ tx.command = "Tick")
         => /\ out.m.state.counter = m.state.counter + 1
            /\ out.m.state.txcounter = m.state.txcounter
    /\ out.e # SUCCESS
         => /\ out.m.state.counter = m.state.counter
            /\ out.m.state.txcounter = m.state.txcounter

\* The event id returned with a successful command is above the one of the
\* ledger before it
Later(m, out) ==
    out.e = SUCCESS => eventid(out.m.state) > eventid(m.state)

\* The same while the counter is below CounterWrap
LaterBelowWrap(m, out) ==
    (out.e = SUCCESS /\ out.m.state.counter < CounterWrap)
    => eventid(out.m.state) > eventid(m.state)

\* Judge(m, tx, out) of every command a client may submit in the ledger
OfEveryCall(Judge(_, _, _)) ==
    \A pkey \in Pids :
        LET Of(tx) == Accepted(M, pkey, tx) => Judge(M, tx, process(M, pkey, tx))
        IN  /\ Of(InstallPlayerTx)
            /\ Of(TickTx)
            /\ \A a \in WithdrawAmounts : Of(WithdrawTx(a))
            /\ \A a \in PointsAmounts : Of(WithdrawPointsTx(a))
            /\ \A t \in Pids, a \in DepositAmounts \cup {1} : Of(DepositTx(t, a))
            /\ \A d \in CreateInputs : Of(CreateProductTypeTx(d))
            /\ \A d \in ModifyInputs : Of(ModifyProductTypeTx(d))
            /\ \A id \in PurchaseProducts, a \in PurchaseAmounts :
                  Of(PurchaseCertificateTx(id, a))
            /\ \A id \in CertIds : Of(ClaimInterestTx(id))
            /\ \A id \in CertIds : Of(RedeemPrincipalTx(id))
            /\ \A a \in AdminWithdrawAmounts : Of(AdminWithdrawToMultisigTx(a))
            /\ \A r \in ReserveRatios : Of(SetReserveRatioTx(r))

EventJudgedAsStated(m, tx, out) == Advances(m, tx, out) /\ Later(m, out)

EventJudged(m, tx, out) == Advances(m, tx, out) /\ LaterBelowWrap(m, out)

\* C29 as stated: the event id returned with each successful operation,
\* (counter << 32) + txcounter, is strictly greater than the one returned
\* with every earlier successful operation: a successful non-Tick operation
\* advances txcounter by exactly 1 and a Tick the counter, a failed operation
\* advances neither, and the event id never decreases over a step.
C29_EventIdsAscend ==
    /\ [](OfEveryCall(EventJudgedAsStated))
    /\ [][eventid(state') >= eventid(state)]_vars

\* C29 amended: the same while the counter is below 2^32 (CounterWrap), the
\* tick at which counter << 32 drops the high bits of the counter and the
\* event id returns to txcounter.
C29_EventIdsAscendBelowWrap ==
    /\ [](OfEveryCall(EventJudged))
    /\ [][state'.counter < CounterWrap
          => eventid(state') >= eventid(state)]_vars

\* A Tick and a counted operation have been processed and the last Tick
\* before the wrap is next
C29_Witness ==
    /\ state.counter = CounterWrap - 1
    /\ state.txcounter > Booted.state.txcounter
    /\ process(M, ADMIN_PUBKEY, DepositTx("alice", 0)).e # SUCCESS
    /\ eventid(process(M, ADMIN_PUBKEY, DepositTx("alice", 1)).m.state)
         = eventid(state) + 1


-----------------------------------------------------------------------------
\* A successful Deposit credits the amount to the target and to total_funds;
\* one of 0 or to a target without an account fails and changes nothing
DepositEffect(m, target, amount, out) ==
    /\ out.e = SUCCESS
         => /\ amount > 0
            /\ m.players[target] # None
            /\ out.m.players[target][1].data.idle_funds
                 = m.players[target][1].data.idle_funds + amount
            /\ out.m.state.total_funds = m.state.total_funds + amount
    /\ (amount = 0 \/ m.players[target] = None)
         => /\ out.e # SUCCESS
            /\ out.m = m

\* C30: a successful Deposit of A > 0 to target T increases T's stored idle
\* balance by exactly A and total_funds by exactly A, for every existing
\* target (the depositing privileged account included); a deposit of 0 or to
\* a target without an account fails and changes nothing.
C30_DepositCredits ==
    \A t \in Pids, a \in DepositAmounts \cup {1} :
        Accepted(M, ADMIN_PUBKEY, DepositTx(t, a))
        => DepositEffect(M, t, a, process(M, ADMIN_PUBKEY, DepositTx(t, a)))


-----------------------------------------------------------------------------
\* Amounts an account may ask to withdraw, which the low 32 bits of a limb
\* carry (here those below Half): none, a unit, the minimum, all its idle
\* balance and a unit above it
WithdrawCheckAmounts(idle) ==
    {0, 1, MIN_CERTIFICATE_AMOUNT}
    \cup (IF idle < Half - 1 THEN {idle, idle + 1} ELSE {})

\* A Withdraw above the idle balance is refused as InsufficientBalance; any
\* other succeeds, takes the amount from the account and from total_funds
\* and appends one settlement instruction
WithdrawEffect(m, pkey, amount, out) ==
    IF amount > m.players[pkey][1].data.idle_funds
    THEN /\ out.e = ERROR_INSUFFICIENT_BALANCE
         /\ out.m = m
    ELSE /\ out.e = SUCCESS
         /\ out.m.players[pkey][1].data.idle_funds
              = m.players[pkey][1].data.idle_funds - amount
         /\ out.m.state.total_funds = m.state.total_funds - amount
         /\ out.m.settlement
              = Append(m.settlement, WithdrawInfo_new(WithdrawTx(amount).data, 0))

\* C31: an ordinary Withdraw of amount A by an existing account fails with
\* InsufficientBalance if A exceeds the account's idle balance, and otherwise
\* succeeds: it decreases that account's idle balance and total_funds by
\* exactly A and enqueues exactly one settlement instruction.
C31_WithdrawEffect ==
    \A pkey \in Pids :
        players[pkey] # None
        => \A a \in WithdrawCheckAmounts(players[pkey][1].data.idle_funds) :
              WithdrawEffect(M, pkey, a, process(M, pkey, WithdrawTx(a)))


-----------------------------------------------------------------------------
(* Points.  No operation credits points, so every stored balance is 0 and
   an ordinary WithdrawPoints of a positive amount is refused in every ledger
   the operations reach.  The handlers are therefore also judged on the
   ledger with a balance written into the stored records, as the tests of
   player.rs construct their PlayerData. *)

\* Balances around one and two withdrawal units, and the largest
PointsValues ==
    {0, POINTS_DIVISOR - 1, POINTS_DIVISOR, POINTS_DIVISOR + 1,
     2 * POINTS_DIVISOR, U64_MAX}

\* Amounts asked: none, one and two units, and the largest a limb carries
PointsCheckAmounts == {0, 1, 2, Half - 1}

\* Ledger m with points in every stored account
WithPoints(m, points) ==
    [m EXCEPT !.players =
        [p \in Pids |-> IF m.players[p] = None THEN None
                        ELSE Some([m.players[p][1] EXCEPT !.data.points = points])]]

PointsOf(m, p) == m.players[p][1].data.points

\* The accounts of m other than p keep their points in n
OthersKeepPoints(m, n, p) ==
    \A q \in Pids \ {p} :
        m.players[q] # None
        => n.players[q] # None /\ PointsOf(n, q) = PointsOf(m, q)

\* An ordinary WithdrawPoints of amount: 0 is InvalidPointsAmount, one the
\* balance does not cover is InsufficientPoints, both leaving the ledger;
\* any other succeeds and takes amount * 17280 from the balance
PointsEffect(m, pkey, amount, out) ==
    /\ OthersKeepPoints(m, out.m, pkey)
    /\ IF amount = 0
       THEN out.e = ERROR_INVALID_POINTS_AMOUNT /\ out.m = m
       ELSE IF PointsOf(m, pkey) < amount * POINTS_DIVISOR
       THEN out.e = ERROR_INSUFFICIENT_POINTS /\ out.m = m
       ELSE /\ out.e = SUCCESS
            /\ PointsOf(out.m, pkey) = PointsOf(m, pkey) - amount * POINTS_DIVISOR

\* A WithdrawPoints of the privileged account succeeds whatever its balance
\* and leaves every balance
PointsEffectAdmin(m, out) ==
    /\ out.e = SUCCESS
    /\ PointsOf(out.m, ADMIN_PUBKEY) = PointsOf(m, ADMIN_PUBKEY)
    /\ OthersKeepPoints(m, out.m, ADMIN_PUBKEY)

\* A command other than WithdrawPoints leaves every balance, whatever it
\* returns
PointsKept(m, tx, out) ==
    tx.command # "WithdrawPoints"
    => \A p \in Pids :
          m.players[p] # None
          => out.m.players[p] # None /\ PointsOf(out.m, p) = PointsOf(m, p)

\* Judge(m, pkey, tx, out) of every command a client pkey may submit in
\* ledger m
OfEveryCallBy(m, Judge(_, _, _, _)) ==
    \A pkey \in Pids :
        LET Of(tx) ==
                Accepted(m, pkey, tx) => Judge(m, pkey, tx, process(m, pkey, tx))
        IN  /\ Of(InstallPlayerTx)
            /\ Of(TickTx)
            /\ \A a \in WithdrawAmounts : Of(WithdrawTx(a))
            /\ \A a \in PointsAmounts : Of(WithdrawPointsTx(a))
            /\ \A t \in Pids, a \in DepositAmounts \cup {1} : Of(DepositTx(t, a))
            /\ \A d \in CreateInputs : Of(CreateProductTypeTx(d))
            /\ \A d \in ModifyInputs : Of(ModifyProductTypeTx(d))
            /\ \A id \in PurchaseProducts, a \in PurchaseAmounts :
                  Of(PurchaseCertificateTx(id, a))
            /\ \A id \in CertIds : Of(ClaimInterestTx(id))
            /\ \A id \in CertIds : Of(RedeemPrincipalTx(id))
            /\ \A a \in AdminWithdrawAmounts : Of(AdminWithdrawToMultisigTx(a))
            /\ \A r \in ReserveRatios : Of(SetReserveRatioTx(r))

\* Judge(m, tx, out) of the same
OfEveryCallIn(m, Judge(_, _, _)) ==
    OfEveryCallBy(m, LAMBDA n, pkey, tx, out : Judge(n, tx, out))

\* The ordinary and the privileged WithdrawPoints in ledger m
PointsJudged(m) ==
    \A pkey \in Pids : \A a \in PointsCheckAmounts :
        m.players[pkey] # None
        => IF pkey = ADMIN_PUBKEY
           THEN PointsEffectAdmin(m, process(m, pkey, WithdrawPointsTx(a)))
           ELSE PointsEffect(m, pkey, a, process(m, pkey, WithdrawPointsTx(a)))

\* C32: an account's points change only through a successful ordinary
\* WithdrawPoints, which requires points >= amount * 17280 (else
\* InsufficientPoints; amount 0 gives InvalidPointsAmount) and decreases the
\* balance by exactly amount * 17280; a WithdrawPoints of the privileged
\* identity succeeds without a balance check and leaves its points; no other
\* operation, whatever it returns, changes a points balance.
C32_PointsByWithdrawal ==
    /\ [](/\ \A points \in PointsValues : PointsJudged(WithPoints(M, points))
          /\ OfEveryCallIn(WithPoints(M, POINTS_DIVISOR), PointsKept))
    /\ [][\A p \in Pids :
            (players[p] # None /\ PointsOf(M, p) # players'[p][1].data.points)
            => \E a \in PointsAmounts :
                  /\ p # ADMIN_PUBKEY
                  /\ process(M, p, WithdrawPointsTx(a)).e = SUCCESS
                  /\ players' = process(M, p, WithdrawPointsTx(a)).m.players]_vars

\* The privileged account has withdrawn points it does not hold (the
\* instruction is queued under the points token), and bob, who has an
\* account, would be paid two units of a balance of two and refused a third
C32_Witness ==
    /\ \E i \in 1..Len(settlement) : settlement[i].feature = 512
    /\ PointsOf(M, ADMIN_PUBKEY) = 0
    /\ players["bob"] # None
    /\ process(M, "bob", WithdrawPointsTx(1)).e = ERROR_INSUFFICIENT_POINTS
    /\ process(WithPoints(M, 2 * POINTS_DIVISOR), "bob", WithdrawPointsTx(2)).e
         = SUCCESS
    /\ PointsOf(process(WithPoints(M, 2 * POINTS_DIVISOR), "bob",
                        WithdrawPointsTx(2)).m, "bob") = 0


-----------------------------------------------------------------------------
(* calculate_total_simple_interest evaluated on its own, on certificates as
   Certificate::new builds them *)

\* The ticks of a year
TicksPerYear == SECONDS_PER_YEAR \div SECONDS_PER_TICK

InterestPrincipals ==
    {0, MIN_CERTIFICATE_AMOUNT, BootPrincipal,
     U64_MAX \div MAX_APY_BASIS_POINTS, U64_MAX \div MAX_APY_BASIS_POINTS + 1,
     U64_MAX}

InterestRates == {0, 1, 1200, MAX_APY_BASIS_POINTS}

InterestPurchaseTimes == {0, BootTicks}

InterestTimesAt ==
    {0, BootTicks - 1, BootTicks, BootTicks + 1, BootTicks + BootDuration,
     TicksPerYear, U64_MAX \div SECONDS_PER_TICK,
     U64_MAX \div SECONDS_PER_TICK + 1 + BootTicks}

\* The certificate of the evaluation: id, owner and product do not enter
InterestCert(principal, apy, purchase_time) ==
    Certificate_new(1, "alice", 1, principal, purchase_time,
                    purchase_time + BootDuration, apy)

EvalTotalInterest(principal, apy, purchase_time, at_time) ==
    /\ call' = Some([args |-> <<principal, apy, purchase_time, at_time>>,
                     result |-> calculate_total_simple_interest(
                                    InterestCert(principal, apy, purchase_time),
                                    at_time)])
    /\ UNCHANGED <<state, players, productTypes, certificates, settlement>>

NextInterest ==
    \E p \in InterestPrincipals, r \in InterestRates,
       pt \in InterestPurchaseTimes, at \in InterestTimesAt :
        EvalTotalInterest(p, r, pt, at)

SpecInterest == Init /\ [][NextInterest]_vars

\* floor(principal * locked_apy / 10000)
AnnualInterest(args) == (args[1] * args[2]) \div BASIS_POINTS_DIVISOR

\* (at_time - purchase_time) * 5
ElapsedSeconds(args) == (args[4] - args[3]) * SECONDS_PER_TICK

\* The three products of the formula fit the word
InterestArgsFit(args) ==
    /\ args[4] - args[3] <= U64_MAX \div SECONDS_PER_TICK
    /\ args[2] # 0 => args[1] <= U64_MAX \div args[2]
    /\ AnnualInterest(args) # 0
         => ElapsedSeconds(args) <= U64_MAX \div AnnualInterest(args)

\* C33: calculate_total_simple_interest(at_time) returns 0 when
\* at_time <= purchase_time; otherwise, its products fitting the word, it
\* returns floor(floor(principal * locked_apy / 10000)
\* * ((at_time - purchase_time) * 5) / 31536000), the rate applied to the
\* principal before the time scaling (and an error when a product does not
\* fit); the available interest of a freshly purchased certificate at its
\* purchase time is 0.
C33_TotalInterestFormula ==
    call # None
    => LET args == call[1].args
           result == call[1].result
       IN  /\ args[4] <= args[3] => result = Ok(0)
           /\ (args[4] > args[3] /\ InterestArgsFit(args))
                => result = Ok((AnnualInterest(args) * ElapsedSeconds(args))
                                  \div SECONDS_PER_YEAR)
           /\ (args[4] > args[3] /\ ~InterestArgsFit(args)) => ~result.ok
           /\ calculate_available_interest(
                  InterestCert(args[1], args[2], args[3]), args[3]) = Ok(0)

\* An evaluation within the first year that returns interest: dividing the
\* time by the year first would return none
C33_Witness ==
    /\ call # None
    /\ call[1].args[4] > call[1].args[3]
    /\ call[1].args[4] - call[1].args[3] < TicksPerYear
    /\ call[1].args[3] > 0
    /\ call[1].result.ok
    /\ call[1].result.v > 0


-----------------------------------------------------------------------------
(* Naturals of any size, as the sequence of their digits in base 10^4 from
   the lowest (0 is the empty sequence), with the sum, the product and the
   order computed digit by digit: the mathematical results that the checked
   operations are compared with. *)

Base == 10 ^ 4

RECURSIVE Digits(_)
Digits(n) == IF n = 0 THEN <<>> ELSE <<n % Base>> \o Digits(n \div Base)

RECURSIVE WideAddCarry(_, _, _)
WideAddCarry(x, y, carry) ==
    IF x = <<>> /\ y = <<>> THEN Digits(carry)
    ELSE LET a == IF x = <<>> THEN 0 ELSE Head(x)
             b == IF y = <<>> THEN 0 ELSE Head(y)
         IN  <<(a + b + carry) % Base>>
             \o WideAddCarry(IF x = <<>> THEN x ELSE Tail(x),
                             IF y = <<>> THEN y ELSE Tail(y),
                             (a + b + carry) \div Base)

WideAdd(x, y) == WideAddCarry(x, y, 0)

\* x times the digit d, plus carry
RECURSIVE WideMulDigit(_, _, _)
WideMulDigit(x, d, carry) ==
    IF d = 0 THEN Digits(carry)
    ELSE IF x = <<>> THEN Digits(carry)
    ELSE <<(Head(x) * d + carry) % Base>>
         \o WideMulDigit(Tail(x), d, (Head(x) * d + carry) \div Base)

\* x times Base
WideShift(x) == IF x = <<>> THEN x ELSE <<0>> \o x

RECURSIVE WideMul(_, _)
WideMul(x, y) ==
    IF x = <<>> \/ y = <<>> THEN <<>>
    ELSE WideAdd(WideMulDigit(x, Head(y), 0), WideShift(WideMul(x, Tail(y))))

\* x <= y, compared from the highest digit
RECURSIVE WideLe(_, _)
WideLe(x, y) ==
    IF Len(x) # Len(y) THEN Len(x) < Len(y)
    ELSE IF x = <<>> THEN TRUE
    ELSE IF x[Len(x)] # y[Len(y)] THEN x[Len(x)] < y[Len(y)]
    ELSE WideLe(SubSeq(x, 1, Len(x) - 1), SubSeq(y, 1, Len(y) - 1))

-----------------------------------------------------------------------------
(* The four checked operations evaluated on their own *)

\* Values around 0, the square root of the word, the half word, half the
\* largest word and the largest word
MathValues ==
    {0, 1, 2, 3, 46340, 46341, Half, U64_MAX \div 2, U64_MAX \div 2 + 1,
     U64_MAX - 1, U64_MAX}

EvalSafeMath(a, b) ==
    /\ call' = Some([args |-> <<a, b>>,
                     result |-> [add |-> safe_add(a, b), sub |-> safe_sub(a, b),
                                 mul |-> safe_mul(a, b), div |-> safe_div(a, b)]])
    /\ UNCHANGED <<state, players, productTypes, certificates, settlement>>

NextMath == \E a \in MathValues, b \in MathValues : EvalSafeMath(a, b)

SpecMath == Init /\ [][NextMath]_vars

\* result is the natural exact where it is at most the largest word, and
\* the error e where it is above
ExactOrError(result, exact, e) ==
    IF WideLe(exact, Digits(U64_MAX))
    THEN result.ok /\ Digits(result.v) = exact
    ELSE result = Err(e)

\* C34: safe_add and safe_mul return the exact sum and product where it is
\* at most the largest word and fail with Overflow where it is above;
\* safe_sub returns the exact difference where it is not negative and fails
\* with Underflow where it is; safe_div fails with DivisionByZero for the
\* divisor 0 and returns floor(a / b) otherwise. None wraps.
C34_CheckedArithmetic ==
    call # None
    => LET a == call[1].args[1]
           b == call[1].args[2]
           r == call[1].result
       IN  /\ ExactOrError(r.add, WideAdd(Digits(a), Digits(b)), ERROR_OVERFLOW)
           /\ ExactOrError(r.mul, WideMul(Digits(a), Digits(b)), ERROR_OVERFLOW)
           /\ IF WideLe(Digits(b), Digits(a))
              THEN r.sub.ok /\ WideAdd(Digits(r.sub.v), Digits(b)) = Digits(a)
              ELSE r.sub = Err(ERROR_UNDERFLOW)
           /\ IF b = 0 THEN r.div = Err(ERROR_DIVISION_BY_ZERO)
              ELSE /\ r.div.ok
                   /\ WideLe(WideMul(Digits(r.div.v), Digits(b)), Digits(a))
                   /\ ~WideLe(WideAdd(WideMul(Digits(r.div.v), Digits(b)),
                                      Digits(b)),
                              Digits(a))

\* An evaluation whose sum and product are above the largest word, whose
\* difference is not negative and whose quotient is rounded down
C34_Witness ==
    /\ call # None
    /\ call[1].result.add = Err(ERROR_OVERFLOW)
    /\ call[1].result.mul = Err(ERROR_OVERFLOW)
    /\ call[1].result.sub.ok
    /\ call[1].result.div.ok
    /\ call[1].result.div.v > 0
    /\ call[1].args[1] % call[1].args[2] # 0


-----------------------------------------------------------------------------
(* calculate_total_simple_interest at the width of the program, 64 bits:
   its amounts are naturals in digits, its checked products fail above
   u64::MAX. *)

\* u64::MAX = 2^64 - 1 = (2^32 - 1) * (2^32 + 1)
U64Wide ==
    WideMul(WideMul(Digits(Half - 1), Digits(Half + 1)),
            WideAdd(WideMul(Digits(Half), Digits(Half)), Digits(1)))

\* floor(x / d) with the remainder, for a divisor d below Base
RECURSIVE WideDivRem(_, _)
WideDivRem(x, d) ==
    IF x = <<>> THEN [q |-> <<>>, r |-> 0]
    ELSE LET high == WideDivRem(Tail(x), d)
             cur == high.r * Base + Head(x)
         IN  [q |-> IF cur \div d = 0 /\ high.q = <<>> THEN <<>>
                    ELSE <<cur \div d>> \o high.q,
              r |-> cur % d]

\* floor(x / (factors[1] * .. * factors[n])): the floor of a quotient by a
\* product is the floor by each factor in turn
RECURSIVE WideDivBy(_, _)
WideDivBy(x, factors) ==
    IF factors = <<>> THEN x
    ELSE WideDivBy(WideDivRem(x, Head(factors)).q, Tail(factors))

\* SECONDS_PER_YEAR = 3600 * 8760, BASIS_POINTS_DIVISOR = 100 * 100
YearFactors == <<3600, SECONDS_PER_YEAR \div 3600>>
BasisFactors == <<100, BASIS_POINTS_DIVISOR \div 100>>

safe_mul_u64(x, y) ==
    IF WideLe(WideMul(x, y), U64Wide) THEN Ok(WideMul(x, y))
    ELSE Err(ERROR_OVERFLOW)

\* The function that multiplies principal, rate and seconds before it divides
calculate_total_simple_interest_u64_product_first(principal, locked_apy, purchase_time, current_time) ==
    IF current_time <= purchase_time THEN Ok(<<>>)
    ELSE
      Bind(safe_mul_u64(Digits(current_time - purchase_time),
                        Digits(SECONDS_PER_TICK)),
           LAMBDA total_time_seconds :
      Bind(safe_mul_u64(Digits(principal), Digits(locked_apy)), LAMBDA product :
      Bind(safe_mul_u64(product, total_time_seconds), LAMBDA scaled :
        Ok(WideDivBy(WideDivBy(scaled, BasisFactors), YearFactors)))))

calculate_total_simple_interest_u64(principal, locked_apy, purchase_time, current_time) ==
    IF current_time <= purchase_time THEN Ok(<<>>)
    ELSE
      Bind(safe_mul_u64(Digits(current_time - purchase_time),
                        Digits(SECONDS_PER_TICK)),
           LAMBDA total_time_seconds :
      Bind(safe_mul_u64(Digits(principal), Digits(locked_apy)), LAMBDA product :
      Bind(safe_mul_u64(WideDivBy(product, BasisFactors), total_time_seconds),
           LAMBDA scaled : Ok(WideDivBy(scaled, YearFactors)))))

\* Principals, rates and elapsed ticks up to the limits of the certificate
\* system, and above them
WidePrincipals ==
    {MIN_CERTIFICATE_AMOUNT, 10 ^ 6, MAX_CERTIFICATE_AMOUNT - 1,
     MAX_CERTIFICATE_AMOUNT, 2 * MAX_CERTIFICATE_AMOUNT}

WideRates == {0, 1, 1200, MAX_APY_BASIS_POINTS, 4 * MAX_APY_BASIS_POINTS}

WideElapsed ==
    {0, 1, TicksPerYear, MAX_CERTIFICATE_DURATION_TICKS - 1,
     MAX_CERTIFICATE_DURATION_TICKS, 8 * MAX_CERTIFICATE_DURATION_TICKS}

WidePurchaseTimes == {0, BootTicks}

EvalTotalInterestU64(principal, apy, purchase_time, elapsed) ==
    /\ call' = Some([args |-> <<principal, apy, purchase_time, elapsed>>,
                     result |-> calculate_total_simple_interest_u64(
                                    principal, apy, purchase_time,
                                    purchase_time + elapsed)])
    /\ UNCHANGED <<state, players, productTypes, certificates, settlement>>

NextWide ==
    \E p \in WidePrincipals, r \in WideRates, pt \in WidePurchaseTimes,
       t \in WideElapsed : EvalTotalInterestU64(p, r, pt, t)

SpecWide == Init /\ [][NextWide]_vars

\* C35: for every certificate with principal <= MAX_CERTIFICATE_AMOUNT and
\* locked_apy <= MAX_APY_BASIS_POINTS, calculate_total_simple_interest
\* returns a value (no Overflow) for every elapsed time up to
\* MAX_CERTIFICATE_DURATION_TICKS, and at the maximum of all three it returns
\* exactly 50,000,000,000.
C35_NoOverflowWithinLimits ==
    call # None
    => LET args == call[1].args
           result == call[1].result
       IN  (/\ args[1] <= MAX_CERTIFICATE_AMOUNT
            /\ args[2] <= MAX_APY_BASIS_POINTS
            /\ args[4] <= MAX_CERTIFICATE_DURATION_TICKS)
           => /\ result.ok
              /\ (/\ args[1] = MAX_CERTIFICATE_AMOUNT
                  /\ args[2] = MAX_APY_BASIS_POINTS
                  /\ args[4] = MAX_CERTIFICATE_DURATION_TICKS)
                 => result.v = WideMul(Digits(50000), Digits(10 ^ 6))

\* The evaluation at the three maxima, for a certificate purchased after
\* tick 0
C35_Witness ==
    /\ call # None
    /\ call[1].args = <<MAX_CERTIFICATE_AMOUNT, MAX_APY_BASIS_POINTS, BootTicks,
                        MAX_CERTIFICATE_DURATION_TICKS>>
    /\ call[1].result.ok
    /\ call[1].result.v = <<0, 0, 500>>


-----------------------------------------------------------------------------
\* The commands whose handler takes the actor's record and advances its nonce
AccountScoped ==
    {"Withdraw", "WithdrawPoints", "Deposit", "CreateProductType",
     "ModifyProductType", "PurchaseCertificate", "ClaimInterest",
     "RedeemPrincipal", "AdminWithdrawToMultisig", "SetReserveRatio"}

NonceOf(m, p) == m.players[p][1].nonce

\* The stored nonce of the actor is one more after a successful
\* account-scoped command and the same after any other; every other account
\* keeps its nonce
NonceEffect(m, pkey, tx, out) ==
    /\ m.players[pkey] # None
         => /\ out.m.players[pkey] # None
            /\ NonceOf(out.m, pkey)
                 = IF out.e = SUCCESS /\ tx.command \in AccountScoped
                   THEN NonceOf(m, pkey) + 1
                   ELSE NonceOf(m, pkey)
    /\ \A q \in Pids \ {pkey} :
          m.players[q] # None
          => out.m.players[q] # None /\ NonceOf(out.m, q) = NonceOf(m, q)

\* C36: the actor's replay sequence number advances by exactly one on each
\* successful account-scoped operation and is not advanced by an operation
\* that returns an error code: after a failed operation the account's stored
\* nonce is the one it had before; over a step no nonce moves but by one.
C36_NonceBySuccess ==
    /\ [](OfEveryCallBy(M, NonceEffect))
    /\ [][\A p \in Pids :
            players[p] # None
            => /\ players'[p] # None
               /\ players'[p][1].nonce \in {NonceOf(M, p), NonceOf(M, p) + 1}]_vars

\* alice has claimed interest and redeemed since her purchase, and her next
\* claim is refused
C36_Witness ==
    /\ NonceOf(M, "alice") = NonceOf(Booted, "alice") + 2
    /\ process(M, "alice", ClaimInterestTx(1)).e = ERROR_INSUFFICIENT_INTEREST
    /\ NonceOf(process(M, "alice", ClaimInterestTx(1)).m, "alice")
         = NonceOf(M, "alice")


-----------------------------------------------------------------------------
\* The number of ticks past maturity over which the accrual is followed
AccrualTicks == 1000

\* The ledger m after the ticks that bring the counter to current_time
AtCounter(m, current_time) == [m EXCEPT !.state.counter = current_time]

\* Times at and after the maturity of a certificate
LaterTimes(cert) ==
    {cert.maturity_time, cert.maturity_time + 1,
     cert.maturity_time + BootDuration, cert.maturity_time + AccrualTicks}

TotalInterestAt(cert, current_time) ==
    calculate_total_simple_interest(cert, current_time)

\* The total interest of a certificate never falls as the time advances
AccrualMonotone(cert) ==
    \A t \in 0..MaxTick \cup LaterTimes(cert) :
    \A u \in LaterTimes(cert) \cup {t + 1} :
       t <= u /\ TotalInterestAt(cert, t).ok /\ TotalInterestAt(cert, u).ok
       => TotalInterestAt(cert, t).v <= TotalInterestAt(cert, u).v

\* After maturity the total interest is above what it was at maturity once
\* the annual interest over the ticks since then amounts to a unit
AccrualGrows(cert) ==
    LET after == cert.maturity_time + AccrualTicks
        annual_interest ==
            (cert.principal * cert.locked_apy) \div BASIS_POINTS_DIVISOR
    IN  /\ TotalInterestAt(cert, after).ok
        /\ annual_interest * (AccrualTicks * SECONDS_PER_TICK)
             >= SECONDS_PER_YEAR
        => TotalInterestAt(cert, after).v
             > TotalInterestAt(cert, cert.maturity_time).v

\* ClaimInterest by the owner pkey of certificate id in ledger m, past
\* maturity or Redeemed, with interest available, succeeds
ClaimsWhenAvailable(m, pkey, id) ==
    LET cert == m.certificates[<<pkey, id>>][1]
        available == calculate_available_interest(cert, m.state.counter)
    IN  /\ m.players[pkey] # None
        /\ is_matured(cert, m.state.counter) \/ cert.status = Redeemed
        /\ available.ok /\ available.v > 0
        => process(m, pkey, ClaimInterestTx(id)).e = SUCCESS

\* C37: interest accrual is not capped at maturity or by redemption: the
\* total interest is non-decreasing in the tick counter and keeps growing
\* after maturity_time, and ClaimInterest succeeds on a certificate past
\* maturity or already Redeemed whenever the available interest at the
\* current tick is positive.
C37_AccrualUncapped ==
    \A key \in CertKeys :
        Stored(key)
        => /\ AccrualMonotone(certificates[key][1])
           /\ AccrualGrows(certificates[key][1])
           /\ \A t \in {state.counter} \cup LaterTimes(certificates[key][1]) :
                 t >= state.counter
                 => ClaimsWhenAvailable(AtCounter(M, t), key[1], key[2])


\* The accrual alone: over every stored certificate the total interest never
\* falls and grows past maturity
AccrualAlone ==
    \A key \in CertKeys :
        Stored(key)
        => /\ AccrualMonotone(certificates[key][1])
           /\ AccrualGrows(certificates[key][1])


-----------------------------------------------------------------------------
\* Every certificate stored in ledger m is Active or Redeemed
PersistedStatuses(m) ==
    \A key \in CertKeys :
        m.certificates[key] # None
        => m.certificates[key][1].status \in {Active, Redeemed}

\* redeem_principal on the stored certificate key of ledger m, Active and
\* matured: update_status computes Matured, and what is stored is Redeemed;
\* below maturity the call fails and stores nothing
RedeemStoresRedeemed(m, key) ==
    LET cert == m.certificates[key][1]
        out == redeem_principal(m, key[1], key[2])
    IN  cert.status = Active
        => IF is_matured(cert, m.state.counter)
           THEN /\ update_status(cert, m.state.counter).status = Matured
                /\ out.r.ok
                /\ out.m.certificates[key][1].status = Redeemed
           ELSE /\ ~out.r.ok
                /\ out.m = m

\* C38: the persisted status of a certificate is only ever Active or
\* Redeemed; no operation stores Matured, because the only path that computes
\* Matured (redeem) either fails without storing or overwrites the status with
\* Redeemed before storing.
C38_MaturedNeverStored ==
    /\ PersistedStatuses(M)
    /\ \A key \in CertKeys : Stored(key) => RedeemStoresRedeemed(M, key)

\* certificate 1 was redeemed at its maturity_time with no interest claimed
C38_Witness ==
    /\ Stored(<<"alice", 1>>)
    /\ Cert(<<"alice", 1>>).status = Redeemed
    /\ Cert(<<"alice", 1>>).total_interest_claimed = 0
    /\ state.counter = Cert(<<"alice", 1>>).maturity_time


-----------------------------------------------------------------------------
\* The amount a settlement instruction carries: the low 32 bits of its first
\* limb, where Withdraw::handle reads the amount it enqueues
SettlementAmount(info) == Low32(info.limbs[1])

\* A successful AdminWithdrawToMultisig of amount enqueues one instruction to
\* the multisig destination, of that amount
MultisigEffect(m, amount, out) ==
    out.e = SUCCESS
    => /\ Len(out.m.settlement) = Len(m.settlement) + 1
       /\ SubSeq(out.m.settlement, 1, Len(m.settlement)) = m.settlement
       /\ LET info == out.m.settlement[Len(out.m.settlement)]
          IN  /\ info.limbs[2] = get_multisig_address_parts[2]
              /\ info.limbs[3] = get_multisig_address_parts[3]
              /\ SettlementAmount(info) = amount
       /\ out.m.state.cumulative_admin_withdrawals
            = m.state.cumulative_admin_withdrawals + amount

\* C39: a successful AdminWithdrawToMultisig of A enqueues exactly one
\* settlement instruction to the fixed multisig destination whose amount is
\* A, so that the amounts of the enqueued privileged settlement instructions
\* add up to cumulative_admin_withdrawals.
C39_MultisigSettlement ==
    \A amount \in AdminWithdrawAmounts :
        Accepted(M, ADMIN_PUBKEY, AdminWithdrawToMultisigTx(amount))
        => MultisigEffect(M, amount,
                          process(M, ADMIN_PUBKEY,
                                  AdminWithdrawToMultisigTx(amount)))


-----------------------------------------------------------------------------
(* The ledger under a scheduler that keeps ticking: the privileged actor's
   Tick is weakly fair, and certificates of short products are purchased while
   their term still ends within the ticks followed. *)

\* The last tick followed, and the transactions counted
LiveMaxTick == 64
MaxLiveTx == 9

\* The terms of the products created, in ticks
LiveDurations == {1, 2}
LongestLiveDuration == 1 + 1

\* The product the first LiveCreateProductType creates
LiveProduct == Booted.state.product_type_counter

LiveTick ==
    /\ state.counter < LiveMaxTick
    /\ Submit(ADMIN_PUBKEY, TickTx)

LiveCreateProductType(duration) ==
    /\ state.txcounter < MaxLiveTx
    /\ Submit(ADMIN_PUBKEY,
              CreateProductTypeTx(<<duration, MAX_APY_BASIS_POINTS,
                                    MIN_CERTIFICATE_AMOUNT, 1>>))

LiveDeposit(target) ==
    /\ state.txcounter < MaxLiveTx
    /\ Submit(ADMIN_PUBKEY, DepositTx(target, MIN_CERTIFICATE_AMOUNT))

LivePurchaseCertificate(pkey) ==
    /\ state.txcounter < MaxLiveTx
    /\ state.counter + LongestLiveDuration <= LiveMaxTick
    /\ Submit(pkey, PurchaseCertificateTx(LiveProduct, MIN_CERTIFICATE_AMOUNT))

LiveClaimInterest(pkey, certificate_id) ==
    /\ state.txcounter < MaxLiveTx
    /\ Submit(pkey, ClaimInterestTx(certificate_id))

LiveRedeemPrincipal(pkey, certificate_id) ==
    /\ state.txcounter < MaxLiveTx
    /\ Submit(pkey, RedeemPrincipalTx(certificate_id))

NextLive ==
    \/ LiveTick
    \/ \E d \in LiveDurations : LiveCreateProductType(d)
    \/ \E t \in Pids : LiveDeposit(t)
    \/ \E pkey \in Pids : LivePurchaseCertificate(pkey)
    \/ \E pkey \in Pids, id \in CertIds : LiveClaimInterest(pkey, id)
    \/ \E pkey \in Pids, id \in CertIds : LiveRedeemPrincipal(pkey, id)

SpecLive == Init /\ [][NextLive]_vars /\ WF_vars(LiveTick)

\* The certificate key is stored and the counter has reached its
\* maturity_time
ReachedMaturity(key) ==
    Stored(key) /\ state.counter >= Cert(key).maturity_time

\* C40: under weak fairness of Tick, every purchased certificate eventually
\* reaches a state where the counter is at or above its maturity_time, and
\* from then on RedeemPrincipal by its owner never fails with
\* CertificateNotMatured.
C40_EventuallyRedeemable ==
    /\ \A key \in CertKeys : Stored(key) ~> ReachedMaturity(key)
    /\ [](\A key \in CertKeys :
             ReachedMaturity(key)
             => process(M, key[1], RedeemPrincipalTx(key[2])).e
                  # ERROR_CERTIFICATE_NOT_MATURED)
    /\ [][\A key \in CertKeys :
             ReachedMaturity(key) => ReachedMaturity(key)']_vars

\* a certificate purchased after the bootstrap was redeemed by its owner at
\* or after its maturity_time
C40_Witness ==
    \E key \in CertKeys :
        /\ key[2] > 1
        /\ ReachedMaturity(key)
        /\ Cert(key).status = Redeemed
        /\ Cert(key).purchase_time >= BootTicks

====
